---- MODULE Spec2Model ----
(***************************************************************************)
(* rubbish-cli: the journal-backed lifecycle of tossed objects.            *)
(*                                                                         *)
(* State: the journal (key -> MetaData), the user's filesystem, the        *)
(* container directory, the clock, the outcome of the last command, and    *)
(* the position of the running process where single steps are followed.    *)
(* One action per command invocation (toss, restore, wipe) on one item,    *)
(* each built from pure operators that follow the handler's statements.    *)
(***************************************************************************)
EXTENDS Integers, Sequences, FiniteSets, TLC

VARIABLES journal, fs, container, now, last, tossed, faults, proc

vars == <<journal, fs, container, now, last, tossed, faults, proc>>

(***************************************************************************)
(* Bounds                                                                  *)
(***************************************************************************)
\* the clock is observed on the day boundaries 0..MaxDays
MaxDays == 1
\* retention values toss is run with (cfg.WipeoutTime / -r) are 1..MaxRetention
MaxRetention == 1
\* the environment injects at most MaxFaults failures (journal transaction,
\* rename, removal) in one run
MaxFaults == 1
\* one invocation names at most MaxBatch items
MaxBatch == 2

\* the width of an int and the significant bits of a float64, scaled down
IntBits == 5
MantBits == 3

DaySecs == 86400

TimePoints == {d * DaySecs : d \in 0..MaxDays}

(***************************************************************************)
(* Paths.  An absolute path is a sequence of names below the root; a path  *)
(* as written on the command line is absolute or relative to the working   *)
(* directory and may contain "..".                                         *)
(***************************************************************************)
\* the directories the tool is invoked from (cfg.WorkingDir = os.Getwd())
WorkingDirs == {<<"w">>, <<"w", "sub">>}

\* the suffixes NameSufix can return (a bounded part of the 36^6 strings),
\* in ascending lexicographic order
SfxSeq == <<"S1", "S2">>
Suffixes == {SfxSeq[i] : i \in 1..Len(SfxSeq)}

\* a journal key / container entry name: basename, "_", suffix
Keys == {<<"a", s>> : s \in Suffixes}

NoKey == <<>>

\* the places of the user's filesystem the model follows
Places == {<<"w", "a">>, <<"w", "sub", "a">>}

None == [kind |-> "none", data |-> "none"]

\* the process between two command invocations
Idle == [pc |-> "idle"]

\* per-item outcomes of a run, as a function of the item
NoItems == [k \in {} |-> "none"]

\* paths as written by the user of toss
TossArgs ==
  { [abs |-> FALSE, comps |-> <<"a">>],
    [abs |-> FALSE, comps |-> <<"..", "a">>],
    [abs |-> TRUE,  comps |-> <<"w", "sub", "a">>] }

RECURSIVE CleanFrom(_, _)
CleanFrom(done, rest) ==
  IF rest = <<>> THEN done
  ELSE IF Head(rest) = ".."
       THEN CleanFrom(IF done = <<>> THEN <<>> ELSE SubSeq(done, 1, Len(done) - 1), Tail(rest))
       ELSE CleanFrom(Append(done, Head(rest)), Tail(rest))

\* filepath.Clean of a rooted path
Clean(comps) == CleanFrom(<<>>, comps)

\* filepath.Abs: join with the working directory unless absolute, then Clean
Abs(wd, file) == Clean(IF file.abs THEN file.comps ELSE wd \o file.comps)

\* filepath.Base / path.Base of a path without trailing slash
Base(comps) == comps[Len(comps)]

\* path.Dir of an absolute path
Dir(p) == SubSeq(p, 1, Len(p) - 1)

IsPrefix(d, p) == Len(d) <= Len(p) /\ SubSeq(p, 1, Len(d)) = d

(***************************************************************************)
(* Filesystem primitives                                                   *)
(***************************************************************************)
\* the object at an absolute path (None when nothing is there)
At(f, p) == IF p \in DOMAIN f THEN f[p] ELSE None

\* os.Stat follows symlinks: it fails on a missing path and on a dangling link
StatOK(f, p) == At(f, p).kind \in {"file", "dir"}

\* os.Lstat does not follow symlinks
LstatOK(f, p) == At(f, p).kind # "none"

\* rename(2) refuses a directory over a non-directory and a non-directory
\* over a directory; a directory replaces only an (empty) directory
RenameAllowed(src, dst) ==
  /\ src.kind # "none"
  /\ \/ dst.kind = "none"
     \/ src.kind # "dir" /\ dst.kind # "dir"
     \/ src.kind = "dir" /\ dst.kind = "dir"

(***************************************************************************)
(* Journal                                                                 *)
(***************************************************************************)
TypeFile == 1
TypeDirectory == 2
TypeSymlink == 3
TypeOther == 4

getType(f, p) ==
  IF ~LstatOK(f, p) THEN TypeOther
  ELSE IF At(f, p).kind = "dangling" THEN TypeSymlink
  ELSE IF At(f, p).kind = "dir" THEN TypeDirectory
  ELSE TypeFile

\* GenerateMetadata inspects the item NAME (relative to the working
\* directory), not the original path
GenerateMetadata(f, wd, item, path, wipeoutTime, t) ==
  [ Item        |-> item,
    Origin      |-> path,
    Type        |-> getType(f, wd \o <<item>>),
    WipeoutTime |-> wipeoutTime,
    TossedTime  |-> t ]

\* register that keeps the record a key already has
register_KeepExisting(j, metadata) ==
  [k \in DOMAIN j \cup {metadata.Item} |-> IF k \in DOMAIN j THEN j[k] ELSE metadata]

\* register: txn.Set(key, value) creates or replaces the record of the key
register(j, metadata) ==
  [k \in DOMAIN j \cup {metadata.Item} |-> IF k = metadata.Item THEN metadata ELSE j[k]]

\* Journal.Add (called AddFileByName by Toss)
Add(j, f, wd, item, file, wipeoutTime, t) ==
  register(j, GenerateMetadata(f, wd, item, Abs(wd, file), wipeoutTime, t))

\* Journal.Delete: txn.Delete(key); an absent key is not an error
Delete(j, item) == [k \in DOMAIN j \ {item} |-> j[k]]

\* Journal.AddRecord: stores the record as given
AddRecord(j, record) == register(j, record)

RECURSIVE ListFrom(_, _)
ListFrom(j, i) ==
  IF i > Len(SfxSeq) THEN <<>>
  ELSE (IF <<"a", SfxSeq[i]>> \in DOMAIN j THEN <<j[<<"a", SfxSeq[i]>>]>> ELSE <<>>)
         \o ListFrom(j, i + 1)

\* Journal.List: every record, in the store's key order
List(j) == ListFrom(j, 1)

\* Journal.FilterPath: the records whose Origin's directory lies in the
\* subtree of prefix
FilterPath(j, prefix) ==
  LET Inside(r) == IsPrefix(prefix, Dir(r.Origin))
  IN  SelectSeq(List(j), Inside)

\* IsWipeable with a strict comparison: due only after the retention
IsWipeable_Strict(m, t) == (t - m.TossedTime) > m.WipeoutTime * DaySecs

\* MetaData.IsWipeable: elapsed hours / 24 >= WipeoutTime
IsWipeable(m, t) == (t - m.TossedTime) >= m.WipeoutTime * DaySecs

Items(records) == {records[i].Item : i \in 1..Len(records)}

RecordOf(records, item) == records[CHOOSE i \in 1..Len(records) : records[i].Item = item]

(***************************************************************************)
(* Access validation                                                       *)
(***************************************************************************)
\* what stat reports about an object relative to the invoking principal
Stats == [owner : BOOLEAN, inGroup : BOOLEAN, mode : SUBSET {"uw", "gw", "ow"}]

checkWritePermission(st) ==
  \/ st.owner /\ "uw" \in st.mode
  \/ st.inGroup /\ "gw" \in st.mode
  \/ "ow" \in st.mode

validateParentDirAccess(parent) == checkWritePermission(parent)

\* acc = [root, obj, parent]: uid 0, stat of the item, stat of its directory
validateAccess(acc) ==
  \/ acc.root
  \/ checkWritePermission(acc.obj) /\ validateParentDirAccess(acc.parent)

Writable == [owner |-> TRUE, inGroup |-> TRUE, mode |-> {"uw", "gw"}]
ReadOnly == [owner |-> TRUE, inGroup |-> TRUE, mode |-> {}]
Foreign  == [owner |-> FALSE, inGroup |-> FALSE, mode |-> {"uw", "gw"}]

\* the principal/permission situations toss is run in
AccessCases ==
  { [root |-> FALSE, obj |-> Writable, parent |-> Writable],
    [root |-> TRUE,  obj |-> Foreign,  parent |-> Foreign],
    [root |-> FALSE, obj |-> ReadOnly, parent |-> Writable],
    [root |-> FALSE, obj |-> Writable, parent |-> Foreign] }

(***************************************************************************)
(* Toss                                                                    *)
(***************************************************************************)
World == [journal |-> journal, fs |-> fs, container |-> container]

\* filepath.Base(item + "_" + NameSufix(6))
DestName(item, sfx) == <<Base(item.comps), sfx>>

\* faults the environment injects into one Toss call
TossFaults == {"none", "add", "rename", "rename_delete"}

\* Toss without the compensating Journal.Delete after a failed rename
Toss_NoCompensation(w, wd, item, wipeoutTime, sfx, acc, fault, t) ==
  LET key   == DestName(item, sfx)
      src   == Abs(wd, item)
      added == Add(w.journal, w.fs, wd, key, item, wipeoutTime, t)
      moved == fault \notin {"rename", "rename_delete"}
                 /\ RenameAllowed(At(w.fs, src), At(w.container, key))
  IN  IF ~validateAccess(acc)
        THEN [w |-> w, key |-> NoKey, outcome |-> "denied"]
      ELSE IF fault = "add"
        THEN [w |-> w, key |-> key, outcome |-> "journal_error"]
      ELSE IF ~moved
        THEN [w |-> [w EXCEPT !.journal = added], key |-> key,
              outcome |-> IF fault = "rename_delete" THEN "compensation_failed"
                          ELSE "rename_failed"]
      ELSE [w |-> [journal   |-> added,
                   fs        |-> [p \in DOMAIN w.fs \ {src} |-> w.fs[p]],
                   container |-> [k \in DOMAIN w.container \cup {key} |->
                                    IF k = key THEN w.fs[src] ELSE w.container[k]]],
            key |-> key, outcome |-> "ok"]

\* Toss that writes the journal record before it validates access
Toss_JournalFirst(w, wd, item, wipeoutTime, sfx, acc, fault, t) ==
  LET key   == DestName(item, sfx)
      src   == Abs(wd, item)
      added == Add(w.journal, w.fs, wd, key, item, wipeoutTime, t)
      moved == fault \notin {"rename", "rename_delete"}
                 /\ RenameAllowed(At(w.fs, src), At(w.container, key))
  IN  IF fault = "add"
        THEN [w |-> w, key |-> key, outcome |-> "journal_error"]
      ELSE IF ~validateAccess(acc)
        THEN [w |-> [w EXCEPT !.journal = added], key |-> NoKey, outcome |-> "denied"]
      ELSE IF ~moved
        THEN IF fault = "rename_delete"
               THEN [w |-> [w EXCEPT !.journal = added],
                     key |-> key, outcome |-> "compensation_failed"]
               ELSE [w |-> [w EXCEPT !.journal = Delete(added, key)],
                     key |-> key, outcome |-> "rename_failed"]
      ELSE [w |-> [journal   |-> added,
                   fs        |-> [p \in DOMAIN w.fs \ {src} |-> w.fs[p]],
                   container |-> [k \in DOMAIN w.container \cup {key} |->
                                    IF k = key THEN w.fs[src] ELSE w.container[k]]],
            key |-> key, outcome |-> "ok"]

Toss(w, wd, item, wipeoutTime, sfx, acc, fault, t) ==
  LET key   == DestName(item, sfx)
      src   == Abs(wd, item)
      added == Add(w.journal, w.fs, wd, key, item, wipeoutTime, t)
      moved == fault \notin {"rename", "rename_delete"}
                 /\ RenameAllowed(At(w.fs, src), At(w.container, key))
  IN  IF ~validateAccess(acc)
        THEN [w |-> w, key |-> NoKey, outcome |-> "denied"]
      ELSE IF fault = "add"
        THEN [w |-> w, key |-> key, outcome |-> "journal_error"]
      ELSE IF ~moved
        THEN IF fault = "rename_delete"
               THEN [w |-> [w EXCEPT !.journal = added],
                     key |-> key, outcome |-> "compensation_failed"]
               ELSE [w |-> [w EXCEPT !.journal = Delete(added, key)],
                     key |-> key, outcome |-> "rename_failed"]
      ELSE [w |-> [journal   |-> added,
                   fs        |-> [p \in DOMAIN w.fs \ {src} |-> w.fs[p]],
                   container |-> [k \in DOMAIN w.container \cup {key} |->
                                    IF k = key THEN w.fs[src] ELSE w.container[k]]],
            key |-> key, outcome |-> "ok"]

\* the errors of the calls made by Toss that the error it returns carries
\* (as its %w / %v argument), by the outcome of the call
TossErrors(outcome) ==
  CASE outcome = "denied"              -> {"validateAccess"}
    [] outcome = "journal_error"       -> {"AddFileByName"}
    [] outcome = "rename_failed"       -> {"Rename"}
    [] outcome = "compensation_failed" -> {"Delete"}
    [] OTHER                           -> {}

\* tosser.Command: the paths in turn, each with its own suffix, access
\* situation and fault; the first path that os.Stat or Toss refuses returns
RECURSIVE tosserCommand(_, _, _, _, _, _, _, _)
tosserCommand(w, wd, files, wipeoutTime, sfx, acc, fault, t) ==
  IF files = <<>> THEN [w |-> w, per |-> <<>>, outcome |-> "ok"]
  ELSE IF ~StatOK(w.fs, Abs(wd, Head(files)))
    THEN [w |-> w, per |-> <<"invalid">>, outcome |-> "invalid"]
  ELSE LET r    == Toss(w, wd, Head(files), wipeoutTime, Head(sfx), Head(acc), Head(fault), t)
           rest == tosserCommand(r.w, wd, Tail(files), wipeoutTime, Tail(sfx), Tail(acc),
                                 Tail(fault), t)
       IN  IF r.outcome # "ok"
             THEN [w |-> r.w, per |-> <<r.outcome>>, outcome |-> r.outcome]
           ELSE [rest EXCEPT !.per = <<"ok">> \o rest.per]

\* the environment may inject a failure while its budget lasts
Inject(fault) ==
  /\ fault # "none" => faults < MaxFaults
  /\ faults' = IF fault = "none" THEN faults ELSE faults + 1

\* tosser.Command with one path: os.Stat must succeed, then Toss
TossCommand(wd, item, wipeoutTime, sfx, acc, fault) ==
  IF ~StatOK(fs, Abs(wd, item))
    THEN /\ fault = "none"
         /\ last' = [op |-> "toss", outcome |-> "invalid"]
         /\ UNCHANGED <<journal, fs, container, now, tossed, faults, proc>>
    ELSE \E r \in {Toss(World, wd, item, wipeoutTime, sfx, acc, fault, now)} :
             /\ Inject(fault)
             /\ journal' = r.w.journal
             /\ fs' = r.w.fs
             /\ container' = r.w.container
             /\ last' = [op |-> "toss", outcome |-> r.outcome]
             /\ tossed' = IF r.outcome = "ok"
                            THEN [tossed EXCEPT ![r.key] = @ \cup {At(fs, Abs(wd, item))}]
                            ELSE tossed
             /\ UNCHANGED <<now, proc>>

(***************************************************************************)
(* Restore                                                                 *)
(***************************************************************************)
RestoreFaults == {"none", "filter", "rename", "delete"}

\* restore that looks the key up in the whole journal instead of the local scope
Restore_GlobalLookup(w, wd, file, override, fault) ==
  LET local_rubbish == List(w.journal)
      record        == RecordOf(local_rubbish, file)
      original_file == wd \o <<Base(record.Origin)>>
      moved         == fault # "rename"
                         /\ RenameAllowed(At(w.container, record.Item), At(w.fs, original_file))
      restored      == [journal   |-> w.journal,
                        fs        |-> [p \in DOMAIN w.fs \cup {original_file} |->
                                         IF p = original_file THEN w.container[record.Item]
                                         ELSE w.fs[p]],
                        container |-> [k \in DOMAIN w.container \ {record.Item} |-> w.container[k]]]
  IN  IF fault = "filter"
        THEN [w |-> w, outcome |-> "journal_error"]
      ELSE IF file \notin Items(local_rubbish)
        THEN [w |-> w, outcome |-> "not_in_scope"]
      ELSE IF StatOK(w.fs, original_file) /\ ~override
        THEN [w |-> w, outcome |-> "conflict"]
      ELSE IF ~moved
        THEN [w |-> w, outcome |-> "rename_failed"]
      ELSE IF fault = "delete"
        THEN [w |-> restored, outcome |-> "delete_failed"]
      ELSE [w |-> [restored EXCEPT !.journal = Delete(w.journal, record.Item)], outcome |-> "ok"]

\* restore that deletes the journal record before it moves the object
Restore_DeleteFirst(w, wd, file, override, fault) ==
  LET local_rubbish == FilterPath(w.journal, wd)
      record        == RecordOf(local_rubbish, file)
      original_file == wd \o <<Base(record.Origin)>>
      moved         == fault # "rename"
                         /\ RenameAllowed(At(w.container, record.Item), At(w.fs, original_file))
      deleted       == [w EXCEPT !.journal = Delete(w.journal, record.Item)]
      restored      == [journal   |-> deleted.journal,
                        fs        |-> [p \in DOMAIN w.fs \cup {original_file} |->
                                         IF p = original_file THEN w.container[record.Item]
                                         ELSE w.fs[p]],
                        container |-> [k \in DOMAIN w.container \ {record.Item} |-> w.container[k]]]
  IN  IF fault = "filter"
        THEN [w |-> w, outcome |-> "journal_error"]
      ELSE IF file \notin Items(local_rubbish)
        THEN [w |-> w, outcome |-> "not_in_scope"]
      ELSE IF StatOK(w.fs, original_file) /\ ~override
        THEN [w |-> w, outcome |-> "conflict"]
      ELSE IF fault = "delete"
        THEN [w |-> w, outcome |-> "delete_failed"]
      ELSE IF ~moved
        THEN [w |-> deleted, outcome |-> "rename_failed"]
      ELSE [w |-> restored, outcome |-> "ok"]

\* Restore that moves the object back to the full original path
Restore_ToOrigin(w, wd, file, override, fault) ==
  LET local_rubbish == FilterPath(w.journal, wd)
      record        == RecordOf(local_rubbish, file)
      original_file == record.Origin
      moved         == fault # "rename"
                         /\ RenameAllowed(At(w.container, record.Item), At(w.fs, original_file))
      restored      == [journal   |-> w.journal,
                        fs        |-> [p \in DOMAIN w.fs \cup {original_file} |->
                                         IF p = original_file THEN w.container[record.Item]
                                         ELSE w.fs[p]],
                        container |-> [k \in DOMAIN w.container \ {record.Item} |-> w.container[k]]]
  IN  IF fault = "filter"
        THEN [w |-> w, outcome |-> "journal_error"]
      ELSE IF file \notin Items(local_rubbish)
        THEN [w |-> w, outcome |-> "not_in_scope"]
      ELSE IF StatOK(w.fs, original_file) /\ ~override
        THEN [w |-> w, outcome |-> "conflict"]
      ELSE IF ~moved
        THEN [w |-> w, outcome |-> "rename_failed"]
      ELSE IF fault = "delete"
        THEN [w |-> restored, outcome |-> "delete_failed"]
      ELSE [w |-> [restored EXCEPT !.journal = Delete(w.journal, record.Item)], outcome |-> "ok"]

\* restorer.Command with one key
Restore(w, wd, file, override, fault) ==
  LET local_rubbish == FilterPath(w.journal, wd)
      record        == RecordOf(local_rubbish, file)
      original_file == wd \o <<Base(record.Origin)>>
      moved         == fault # "rename"
                         /\ RenameAllowed(At(w.container, record.Item), At(w.fs, original_file))
      restored      == [journal   |-> w.journal,
                        fs        |-> [p \in DOMAIN w.fs \cup {original_file} |->
                                         IF p = original_file THEN w.container[record.Item]
                                         ELSE w.fs[p]],
                        container |-> [k \in DOMAIN w.container \ {record.Item} |-> w.container[k]]]
  IN  IF fault = "filter"
        THEN [w |-> w, outcome |-> "journal_error"]
      ELSE IF file \notin Items(local_rubbish)
        THEN [w |-> w, outcome |-> "not_in_scope"]
      ELSE IF StatOK(w.fs, original_file) /\ ~override
        THEN [w |-> w, outcome |-> "conflict"]
      ELSE IF ~moved
        THEN [w |-> w, outcome |-> "rename_failed"]
      ELSE IF fault = "delete"
        THEN [w |-> restored, outcome |-> "delete_failed"]
      ELSE [w |-> [restored EXCEPT !.journal = Delete(w.journal, record.Item)], outcome |-> "ok"]

\* the loop of restorer.Command over the named keys, against the local
\* records read before the loop; a failed rename or delete returns
RECURSIVE restoreFiles(_, _, _, _, _, _)
restoreFiles(w, wd, local_rubbish, files, override, fault) ==
  IF files = <<>> THEN [w |-> w, per |-> <<>>, outcome |-> "ok"]
  ELSE LET file          == Head(files)
           record        == RecordOf(local_rubbish, file)
           original_file == wd \o <<Base(record.Origin)>>
           moved         == Head(fault) # "rename"
                              /\ RenameAllowed(At(w.container, record.Item),
                                               At(w.fs, original_file))
           restored      == [journal   |-> w.journal,
                             fs        |-> [p \in DOMAIN w.fs \cup {original_file} |->
                                              IF p = original_file
                                                THEN w.container[record.Item]
                                                ELSE w.fs[p]],
                             container |-> [k \in DOMAIN w.container \ {record.Item} |->
                                              w.container[k]]]
           skip(msg)     == LET rest == restoreFiles(w, wd, local_rubbish, Tail(files),
                                                     override, Tail(fault))
                            IN  [rest EXCEPT !.per = <<msg>> \o rest.per]
           done          == LET rest == restoreFiles(
                                          [restored EXCEPT !.journal =
                                             Delete(w.journal, record.Item)],
                                          wd, local_rubbish, Tail(files), override, Tail(fault))
                            IN  [rest EXCEPT !.per = <<"ok">> \o rest.per]
       IN  IF file \notin Items(local_rubbish) THEN skip("not_in_scope")
           ELSE IF StatOK(w.fs, original_file) /\ ~override THEN skip("conflict")
           ELSE IF ~moved
             THEN [w |-> w, per |-> <<"rename_failed">>, outcome |-> "rename_failed"]
           ELSE IF Head(fault) = "delete"
             THEN [w |-> restored, per |-> <<"delete_failed">>, outcome |-> "delete_failed"]
           ELSE done

\* restorer.Command: FilterPath(cfg.WorkingDir) once, then the loop
restorerCommand(w, wd, files, override, fault) ==
  IF fault # <<>> /\ Head(fault) = "filter"
    THEN [w |-> w, per |-> <<>>, outcome |-> "journal_error"]
  ELSE restoreFiles(w, wd, FilterPath(w.journal, wd), files, override, fault)

\* keys whose container entry left the container are no longer awaited
Forget(t, w) == [k \in Keys |-> IF k \in DOMAIN w.container THEN t[k] ELSE {}]

RestoreCommand(wd, file, override, fault) ==
  \E r \in {Restore(World, wd, file, override, fault)} :
    /\ Inject(fault)
    /\ journal' = r.w.journal
    /\ fs' = r.w.fs
    /\ container' = r.w.container
    /\ last' = [op |-> "restore", outcome |-> r.outcome]
    /\ tossed' = Forget(tossed, r.w)
    /\ UNCHANGED <<now, proc>>

(***************************************************************************)
(* Wipe                                                                    *)
(***************************************************************************)
\* what the user types at the confirmation prompt ("" is an empty line)
Responses == {"y", "n", ""}

WipeFaults == {"none", "delete", "remove", "remove_readd"}

\* fmt.Scanln(&response) fails unless the line holds exactly one word
ScanlnFails(line) == line \in {"", "not now"}

\* confirmWipe: "yes", "no", or the error of Scanln
confirmWipe(autoAcknowledge, response) ==
  IF autoAcknowledge THEN "yes"
  ELSE IF ScanlnFails(response) THEN "error"
  ELSE IF response = "y" \/ response = "Y" THEN "yes"
  ELSE "no"

\* getRecords that never applies the retention filter
getRecords_NoRetention(j, wd, global, ignoreWipeTime, t) ==
  IF global THEN List(j) ELSE FilterPath(j, wd)

\* getRecords: the scope, then the retention filter unless ignoreWipeTime
getRecords(j, wd, global, ignoreWipeTime, t) ==
  LET records == IF global THEN List(j) ELSE FilterPath(j, wd)
      Due(r)  == IsWipeable(r, t)
  IN  IF ignoreWipeTime THEN records ELSE SelectSeq(records, Due)

\* executeWipe: delete the record, remove the object, re-add on failure
executeWipe(w, record, fault) ==
  IF fault = "delete"
    THEN [w |-> w, outcome |-> "delete_failed"]
  ELSE IF fault \in {"remove", "remove_readd"}
    THEN [w |-> [w EXCEPT !.journal =
                   IF fault = "remove_readd" THEN Delete(w.journal, record.Item)
                   ELSE AddRecord(Delete(w.journal, record.Item), record)],
          outcome |-> "remove_failed"]
  ELSE [w |-> [w EXCEPT !.journal = Delete(w.journal, record.Item),
                        !.container = [k \in DOMAIN w.container \ {record.Item} |->
                                         w.container[k]]],
        outcome |-> "wiped"]

\* the errors of the calls made by executeWipe that the error it returns
\* carries; the result of AddRecord is not looked at
executeWipeErrors(fault) ==
  CASE fault = "delete"                     -> {"Delete"}
    [] fault \in {"remove", "remove_readd"} -> {"RemoveAll"}
    [] OTHER                                -> {}

\* wipeAllFiles that returns at the first candidate whose executeWipe fails
RECURSIVE wipeAllFiles_AbortOnFailure(_, _, _, _, _)
wipeAllFiles_AbortOnFailure(w, records, autoAcknowledge, resp, flt) ==
  IF records = <<>> THEN [w |-> w, per |-> NoItems, outcome |-> "done"]
  ELSE LET record    == Head(records)
           confirmed == confirmWipe(autoAcknowledge, resp[record.Item])
           wiped     == executeWipe(w, record, flt[record.Item])
           rest      == wipeAllFiles_AbortOnFailure(IF confirmed = "yes" THEN wiped.w ELSE w,
                                                    Tail(records), autoAcknowledge, resp, flt)
       IN  IF confirmed = "error"
             THEN [w |-> w, per |-> (record.Item :> "confirm_error"), outcome |-> "confirm_error"]
           ELSE IF confirmed = "yes" /\ wiped.outcome # "wiped"
             THEN [w |-> wiped.w, per |-> (record.Item :> wiped.outcome),
                   outcome |-> wiped.outcome]
           ELSE [rest EXCEPT !.per = (record.Item :>
                     (IF confirmed = "no" THEN "skipped" ELSE wiped.outcome)) @@ rest.per]

\* wipeAllFiles: every candidate in turn; a confirmation error returns
RECURSIVE wipeAllFiles(_, _, _, _, _)
wipeAllFiles(w, records, autoAcknowledge, resp, flt) ==
  IF records = <<>> THEN [w |-> w, per |-> NoItems, outcome |-> "done"]
  ELSE LET record    == Head(records)
           confirmed == confirmWipe(autoAcknowledge, resp[record.Item])
           wiped     == executeWipe(w, record, flt[record.Item])
           rest      == wipeAllFiles(IF confirmed = "yes" THEN wiped.w ELSE w,
                                     Tail(records), autoAcknowledge, resp, flt)
       IN  IF confirmed = "error"
             THEN [w |-> w, per |-> (record.Item :> "confirm_error"), outcome |-> "confirm_error"]
           ELSE [rest EXCEPT !.per = (record.Item :>
                     (IF confirmed = "no" THEN "skipped" ELSE wiped.outcome)) @@ rest.per]

\* wipeSelectedFiles: the named items in turn; an item that is not among the
\* records, or a confirmation error, returns
RECURSIVE wipeSelectedFiles(_, _, _, _, _, _)
wipeSelectedFiles(w, records, files, autoAcknowledge, resp, flt) ==
  IF files = <<>> THEN [w |-> w, per |-> NoItems, outcome |-> "done"]
  ELSE LET file == Head(files)
       IN  IF file \notin Items(records)
             THEN [w |-> w, per |-> (file :> "not_found"), outcome |-> "not_found"]
           ELSE LET record    == RecordOf(records, file)
                    confirmed == confirmWipe(autoAcknowledge, resp[file])
                    wiped     == executeWipe(w, record, flt[file])
                    rest      == wipeSelectedFiles(IF confirmed = "yes" THEN wiped.w ELSE w,
                                                   records, Tail(files), autoAcknowledge,
                                                   resp, flt)
                IN  IF confirmed = "error"
                      THEN [w |-> w, per |-> (file :> "confirm_error"),
                            outcome |-> "confirm_error"]
                    ELSE [rest EXCEPT !.per = (file :>
                              (IF confirmed = "no" THEN "skipped" ELSE wiped.outcome)) @@ rest.per]

WipeModes == [global : BOOLEAN, force : BOOLEAN, yes : BOOLEAN]

\* Flags.Args() of a run that names at most one item
Selected(file) == IF file = NoKey THEN <<>> ELSE <<file>>

\* wipe.Command; files = <<>> when no item is named
Wipe(w, wd, mode, files, resp, flt, listFault, t) ==
  LET records == getRecords(w.journal, wd, mode.global, mode.force, t)
  IN  IF listFault
        THEN [w |-> w, per |-> NoItems, outcome |-> "journal_error"]
      ELSE IF records = <<>>
        THEN [w |-> w, per |-> NoItems, outcome |-> "nothing"]
      ELSE IF Len(files) > 0
        THEN wipeSelectedFiles(w, records, files, mode.yes, resp, flt)
      ELSE wipeAllFiles(w, records, mode.yes, resp, flt)

\* what one wipe invocation printed: the error it returned, else the worst
\* per-item message
Report(r) ==
  LET said == {r.per[k] : k \in DOMAIN r.per}
  IN  IF r.outcome # "done" THEN r.outcome
      ELSE IF "remove_failed" \in said THEN "remove_failed"
      ELSE IF "delete_failed" \in said THEN "delete_failed"
      ELSE IF "wiped" \in said THEN "wiped"
      ELSE "skipped"

FaultCount(flt, listFault) ==
  Cardinality({k \in DOMAIN flt : flt[k] # "none"}) + (IF listFault THEN 1 ELSE 0)

WipeCommand(wd, mode, file, resp, flt, listFault) ==
  \E r \in {Wipe(World, wd, mode, Selected(file), resp, flt, listFault, now)} :
    /\ faults + FaultCount(flt, listFault) <= MaxFaults
    /\ faults' = faults + FaultCount(flt, listFault)
    /\ journal' = r.w.journal
    /\ container' = r.w.container
    /\ last' = [op |-> "wipe", outcome |-> Report(r), per |-> r.per]
    /\ tossed' = Forget(tossed, r.w)
    /\ UNCHANGED <<fs, now, proc>>

Tick ==
  /\ now < MaxDays * DaySecs
  /\ now' = CHOOSE t \in TimePoints : t > now /\ \A u \in TimePoints : u > now => t <= u
  /\ UNCHANGED <<journal, fs, container, last, tossed, faults, proc>>

(***************************************************************************)
(* Initial state and next-state relation                                   *)
(***************************************************************************)
InitFS ==
  { f \in [Places -> [kind : {"file", "dir", "dangling"}, data : {"d1", "d2"}]] :
      /\ f[<<"w", "a">>] \in {[kind |-> k, data |-> "d1"] : k \in {"file", "dangling"}}
      /\ f[<<"w", "sub", "a">>] \in {[kind |-> k, data |-> "d2"] : k \in {"file", "dir"}}
      /\ f[<<"w", "a">>].kind = "dangling" => f[<<"w", "sub", "a">>].kind = "file" }

Init ==
  /\ journal = <<>>
  /\ \E f \in InitFS : fs = [p \in {q \in Places : f[q].kind # "none"} |-> f[p]]
  /\ container = <<>>
  /\ now = 0
  /\ last = [op |-> "none", outcome |-> "none"]
  /\ tossed = [k \in Keys |-> {}]
  /\ faults = 0
  /\ proc = Idle

\* inputs that the handler never reads on its path are not varied
Only(S, used) == IF used THEN S ELSE {CHOOSE x \in S : TRUE}
NoFaultUnless(S, used) == IF used THEN S ELSE {"none"}

\* the items one wipe invocation can reach: its candidates, or the named one
Asked(wd, mode, file, listFault) ==
  LET cand == Items(getRecords(journal, wd, mode.global, mode.force, now))
  IN  IF listFault THEN {}
      ELSE IF file = NoKey THEN cand
      ELSE cand \cap {file}

Next ==
  \/ \E wd \in WorkingDirs, item \in TossArgs :
       \E acc \in Only(AccessCases, StatOK(fs, Abs(wd, item))) :
         \E wt \in Only(1..MaxRetention, StatOK(fs, Abs(wd, item)) /\ validateAccess(acc)),
            sfx \in Only(Suffixes, StatOK(fs, Abs(wd, item)) /\ validateAccess(acc)),
            fault \in NoFaultUnless(TossFaults, StatOK(fs, Abs(wd, item)) /\ validateAccess(acc)) :
           TossCommand(wd, item, wt, sfx, acc, fault)
  \/ \E wd \in WorkingDirs, file \in Keys, override \in BOOLEAN, fault \in RestoreFaults :
       RestoreCommand(wd, file, override, fault)
  \/ \E listFault \in BOOLEAN :
       \E mode \in Only(WipeModes, ~listFault) :
         \E wd \in Only(WorkingDirs, ~listFault /\ ~mode.global) :
           \E file \in Only(Keys \cup {NoKey}, Asked(wd, mode, NoKey, listFault) # {}) :
         \E resp \in [Asked(wd, mode, file, listFault) -> Only(Responses, ~mode.yes)] :
           \E flt \in { f \in [DOMAIN resp -> WipeFaults] :
                          \A k \in DOMAIN resp :
                            confirmWipe(mode.yes, resp[k]) # "yes" => f[k] = "none" } :
             WipeCommand(wd, mode, file, resp, flt, listFault)
  \/ Tick

Spec == Init /\ [][Next]_vars

(***************************************************************************)
(* Properties.  A property of one handler is stated over every call the    *)
(* handler can receive in the current (reachable) state.                   *)
(***************************************************************************)
\* the calls of Toss that tosser.Command can make in the current state
TossCalls ==
  { c \in [wd : WorkingDirs, item : TossArgs, wt : 1..MaxRetention, sfx : Suffixes,
           acc : AccessCases, fault : TossFaults] : StatOK(fs, Abs(c.wd, c.item)) }

TossOf(c) == Toss(World, c.wd, c.item, c.wt, c.sfx, c.acc, c.fault, now)

\* the call passes the access check, writes the record, and os.Rename fails
MoveFails(c) ==
  /\ validateAccess(c.acc)
  /\ c.fault # "add"
  /\ \/ c.fault \in {"rename", "rename_delete"}
     \/ ~RenameAllowed(At(fs, Abs(c.wd, c.item)), At(container, DestName(c.item, c.sfx)))

C2_DeniedChangesNothing ==
  \A c \in TossCalls :
    ~validateAccess(c.acc) => TossOf(c).w = World /\ TossOf(c).outcome = "denied"

C2_Witness == last.op = "toss" /\ last.outcome = "denied" /\ DOMAIN journal # {}

\* C3 as stated: a successful Toss adds exactly one record (Item = the new
\* container entry, Origin = the absolute path, WipeoutTime = cfg.WipeoutTime),
\* the source path is gone, and the container has exactly one new entry.
C3_Original ==
  \A c \in TossCalls :
    LET r   == TossOf(c)
        key == DestName(c.item, c.sfx)
        src == Abs(c.wd, c.item)
    IN  r.outcome = "ok" =>
          /\ key \notin DOMAIN journal
          /\ DOMAIN r.w.journal = DOMAIN journal \cup {key}
          /\ \A k \in DOMAIN journal : r.w.journal[k] = journal[k]
          /\ r.w.journal[key].Item = key
          /\ r.w.journal[key].Origin = src
          /\ r.w.journal[key].WipeoutTime = c.wt
          /\ src \notin DOMAIN r.w.fs
          /\ key \notin DOMAIN container
          /\ DOMAIN r.w.container = DOMAIN container \cup {key}
          /\ r.w.container[key] = fs[src]

\* apart from a suffix that repeats an existing key, a successful Toss has
\* the effect C3 states
C3_ApartFromCollision ==
  \A c \in TossCalls :
    LET r   == TossOf(c)
        key == DestName(c.item, c.sfx)
        src == Abs(c.wd, c.item)
    IN  r.outcome = "ok" /\ key \notin DOMAIN journal /\ key \notin DOMAIN container =>
          /\ DOMAIN r.w.journal = DOMAIN journal \cup {key}
          /\ \A k \in DOMAIN journal : r.w.journal[k] = journal[k]
          /\ r.w.journal[key].Item = key
          /\ r.w.journal[key].Origin = src
          /\ r.w.journal[key].WipeoutTime = c.wt
          /\ src \notin DOMAIN r.w.fs
          /\ DOMAIN r.w.container = DOMAIN container \cup {key}
          /\ r.w.container[key] = fs[src]

\* C4 as stated: two different objects of the same basename tossed one after
\* the other never share a key: no container entry (and its record) ever
\* stands for more than one tossed object.
C4_Original == \A k \in Keys : Cardinality(tossed[k]) <= 1

\* C5 as stated: an object tossed under a key and then restored by that key
\* is, at the restore target, the object that was tossed, and no record of
\* the key remains.
C5_Original ==
  \A wd \in WorkingDirs, file \in Keys, override \in BOOLEAN, fault \in RestoreFaults :
    LET r      == Restore(World, wd, file, override, fault)
        target == wd \o <<Base(journal[file].Origin)>>
    IN  r.outcome = "ok" =>
          /\ \A o \in tossed[file] : At(r.w.fs, target) = o
          /\ file \notin DOMAIN r.w.journal

\* apart from keys that stand for two tossed objects, the round trip holds
C5_ApartFromCollision ==
  \A wd \in WorkingDirs, file \in Keys, override \in BOOLEAN, fault \in RestoreFaults :
    LET r      == Restore(World, wd, file, override, fault)
        target == wd \o <<Base(journal[file].Origin)>>
    IN  r.outcome = "ok" /\ Cardinality(tossed[file]) <= 1 =>
          /\ tossed[file] # {}
          /\ \A o \in tossed[file] : At(r.w.fs, target) = o
          /\ file \notin DOMAIN r.w.journal

\* C6 as stated: when an object exists at the restore target and override is
\* false, restore changes nothing: record, container entry and target stay.
C6_Original ==
  \A wd \in WorkingDirs, file \in Keys, fault \in RestoreFaults :
    LET local  == FilterPath(journal, wd)
        target == wd \o <<Base(RecordOf(local, file).Origin)>>
    IN  file \in Items(local) /\ LstatOK(fs, target)
          => Restore(World, wd, file, FALSE, fault).w = World

\* a target that os.Stat can see is a conflict that changes nothing
C6_VisibleTarget ==
  \A wd \in WorkingDirs, file \in Keys, fault \in RestoreFaults :
    LET local  == FilterPath(journal, wd)
        target == wd \o <<Base(RecordOf(local, file).Origin)>>
    IN  file \in Items(local) /\ StatOK(fs, target)
          => Restore(World, wd, file, FALSE, fault).w = World

\* C7: a key that is not in FilterPath(cfg.WorkingDir) is reported and
\* skipped by restore: journal, filesystem and container are unchanged, also
\* when the key has a record elsewhere in the journal.
C7_LocalScopeOnly ==
  \A wd \in WorkingDirs, file \in Keys, override \in BOOLEAN, fault \in RestoreFaults :
    file \notin Items(FilterPath(journal, wd))
      => LET r == Restore(World, wd, file, override, fault)
         IN  r.w = World /\ r.outcome \in {"not_in_scope", "journal_error"}

C7_Witness ==
  /\ last.op = "restore" /\ last.outcome = "not_in_scope"
  /\ \E k \in DOMAIN journal, wd \in WorkingDirs :
       k \in DOMAIN container /\ k \notin Items(FilterPath(journal, wd))

\* C8: restore deletes the record of an item only when the move out of the
\* container has succeeded; when the move fails the journal is untouched
\* and the object is still in the container.
C8_DeleteAfterMove ==
  \A wd \in WorkingDirs, file \in Keys, override \in BOOLEAN, fault \in RestoreFaults :
    LET local  == FilterPath(journal, wd)
        target == wd \o <<Base(RecordOf(local, file).Origin)>>
        r      == Restore(World, wd, file, override, fault)
    IN  file \in Items(local) =>
          /\ file \notin DOMAIN r.w.journal
               => /\ file \in DOMAIN container
                  /\ file \notin DOMAIN r.w.container
                  /\ At(r.w.fs, target) = container[file]
          /\ fault = "rename" \/ ~RenameAllowed(At(container, file), At(fs, target))
               => r.w.journal = journal /\ r.w.container = container

C8_Witness ==
  /\ last.op = "restore" /\ last.outcome = "rename_failed"
  /\ \E k \in DOMAIN journal : k \in DOMAIN container

\* the scope of a wipe and the candidates named by the flags
Scope(wd, global) == IF global THEN List(journal) ELSE FilterPath(journal, wd)

Candidates(wd, mode) ==
  {k \in Items(Scope(wd, mode.global)) : mode.force \/ IsWipeable(journal[k], now)}

\* C9: the candidates of wipe are the records of the scope, restricted to
\* the wipeable ones unless force; no run of wipe deletes a record or
\* removes a container object outside the candidates.
C9_CandidateSet ==
  \A mode \in WipeModes, wd \in WorkingDirs :
    /\ Items(getRecords(journal, wd, mode.global, mode.force, now)) = Candidates(wd, mode)
    /\ \A file \in Keys \cup {NoKey}, listFault \in BOOLEAN :
         \A resp \in [Candidates(wd, mode) -> IF mode.yes THEN {"y"} ELSE Responses] :
           \A flt \in { f \in [Candidates(wd, mode) -> WipeFaults] :
                          \A k \in DOMAIN f : resp[k] # "y" => f[k] = "none" } :
             LET r == Wipe(World, wd, mode, Selected(file), resp, flt, listFault, now)
             IN  \A k \in Keys \ Candidates(wd, mode) :
                   /\ At(r.w.journal, k) = At(journal, k)
                   /\ At(r.w.container, k) = At(container, k)

C9_Witness ==
  /\ last.op = "wipe" /\ last.outcome = "wiped"
  /\ \E k \in DOMAIN journal : ~IsWipeable(journal[k], now)

\* C10 as stated: when removing the container object fails after the record
\* was deleted, executeWipe reports the error and the journal holds the
\* record again, identical to the original.
C10_Original ==
  \A k \in DOMAIN journal, fault \in {"remove", "remove_readd"} :
    LET r == executeWipe(World, journal[k], fault)
    IN  /\ r.outcome = "remove_failed"
        /\ k \in DOMAIN r.w.journal
        /\ r.w.journal[k] = journal[k]

\* when Journal.AddRecord succeeds, a failed removal leaves everything as it was
C10_ReaddSucceeds ==
  \A k \in DOMAIN journal :
    LET r == executeWipe(World, journal[k], "remove")
    IN  r.outcome = "remove_failed" /\ r.w = World

(***************************************************************************)
(* Invocations that name several items                                     *)
(***************************************************************************)
\* the argument lists of one invocation: 1..MaxBatch items of S
Batches(S) == UNION {[1..n -> S] : n \in 1..MaxBatch}

\* the position of a key in the journal's key order
KeyIndex(k) == CHOOSE i \in 1..Len(SfxSeq) : SfxSeq[i] = k[2]

Always(x) == [k \in Keys |-> x]

\* C11 as stated: a named key that is not among the candidates is reported
\* for that item only, and the keys named after it are still processed.
C11_Original ==
  \A mode \in WipeModes, wd \in WorkingDirs, files \in Batches(Keys) :
    LET cand == Candidates(wd, mode)
        r    == Wipe(World, wd, mode, files, Always("y"), Always("none"), FALSE, now)
    IN  cand # {} =>
          \A i \in 1..Len(files) :
            /\ files[i] \in DOMAIN r.per
            /\ files[i] \notin cand => r.per[files[i]] = "not_found"

\* the messages of a failed executeWipe
WipeFailures == {"delete_failed", "remove_failed"}

\* the record lists wipe.Command can hand to its two loops in this state
CandidateLists ==
  {getRecords(journal, wd, m.global, m.force, now) : wd \in WorkingDirs, m \in WipeModes}
    \ {<<>>}

\* C13: when executeWipe fails for a candidate, the error is reported for
\* that item, the run does not return, and every other candidate or named
\* candidate is still confirmed and wiped.
C13_ContinuesAfterFailure ==
  \A records \in CandidateLists, auto \in BOOLEAN :
    LET cand == Items(records)
    IN  \A files \in {<<>>} \cup Batches(cand) :
          \A resp \in [cand -> IF auto THEN {"y"} ELSE {"y", "n"}] :
          \A flt \in {f \in [cand -> WipeFaults] : \A k \in cand : resp[k] = "n" => f[k] = "none"} :
            LET r     == IF files = <<>>
                           THEN wipeAllFiles(World, records, auto, resp, flt)
                           ELSE wipeSelectedFiles(World, records, files, auto, resp, flt)
                asked == IF files = <<>> THEN cand ELSE {files[i] : i \in 1..Len(files)}
            IN  /\ r.outcome = "done"
                /\ DOMAIN r.per = asked
                /\ \A k \in asked :
                     /\ resp[k] = "y" /\ flt[k] # "none" => r.per[k] \in WipeFailures
                     /\ resp[k] = "y" /\ flt[k] = "none"
                          => /\ r.per[k] = "wiped"
                             /\ k \notin DOMAIN r.w.journal
                             /\ k \notin DOMAIN r.w.container
                     /\ resp[k] = "n" => r.per[k] = "skipped"

C13_Witness ==
  /\ last.op = "wipe"
  /\ \E k1 \in DOMAIN last.per, k2 \in DOMAIN last.per :
       /\ KeyIndex(k1) < KeyIndex(k2)
       /\ last.per[k1] \in WipeFailures
       /\ last.per[k2] = "wiped"

\* an access situation that passes, and per-item inputs that cannot fail
Granted == [root |-> FALSE, obj |-> Writable, parent |-> Writable]

Rest(n, x) == [i \in 1..(n - 1) |-> x]

\* one-item invocations of the two commands are Toss and Restore
OneItemAgrees ==
  /\ \A c \in TossCalls :
       LET r == tosserCommand(World, c.wd, <<c.item>>, c.wt, <<c.sfx>>, <<c.acc>>,
                              <<c.fault>>, now)
       IN  r.w = TossOf(c).w /\ r.outcome = TossOf(c).outcome
  /\ \A wd \in WorkingDirs, file \in Keys, override \in BOOLEAN, fault \in RestoreFaults :
       LET r == restorerCommand(World, wd, <<file>>, override, <<fault>>)
           s == Restore(World, wd, file, override, fault)
       IN  r.w = s.w /\ (r.per = <<s.outcome>> \/ r.outcome = s.outcome)

\* C12 as stated: in a toss or restore invocation with several items, an
\* item that fails is reported and the items after it are still processed.
C12_Original ==
  /\ \A wd \in WorkingDirs, files \in Batches(TossArgs), sfx \in Suffixes,
        acc \in AccessCases, fault \in TossFaults :
       LET n == Len(files)
           r == tosserCommand(World, wd, files, 1,
                              <<sfx>> \o Rest(n, CHOOSE x \in Suffixes : x # sfx),
                              <<acc>> \o Rest(n, Granted),
                              <<fault>> \o Rest(n, "none"), now)
       IN  Len(r.per) = n
  /\ \A wd \in WorkingDirs, files \in Batches(Keys), override \in BOOLEAN,
        fault \in RestoreFaults \ {"filter"} :
       LET n == Len(files)
           r == restorerCommand(World, wd, files, override, <<fault>> \o Rest(n, "none"))
       IN  Len(r.per) = n

(***************************************************************************)
(* Retention arithmetic.  One record with a drawn toss time and retention; *)
(* the clock visits the seconds around each whole number of days and the   *)
(* record is asked whether it is due.                                      *)
(***************************************************************************)
DefaultWipeoutTime == 30

Retentions == (0..MaxRetention) \cup {DefaultWipeoutTime}

TossedTimes == TimePoints \cup {1}

Offsets == {d * DaySecs + e : d \in Retentions, e \in {-1, 0, 1}} \cap Nat

TheKey == <<"a", "S1">>

InitWipeable ==
  /\ \E wt \in Retentions, t \in TossedTimes :
       /\ journal = register(<<>>, [Item |-> TheKey, Origin |-> <<"w", "a">>, Type |-> TypeFile,
                                    WipeoutTime |-> wt, TossedTime |-> t])
       /\ now = t
  /\ fs = <<>>
  /\ container = <<>>
  /\ last = [op |-> "none", outcome |-> "none"]
  /\ tossed = [k \in Keys |-> {}]
  /\ faults = 0
  /\ proc = Idle

\* time passes, to one of the instants around a whole number of days
Elapse ==
  /\ \E o \in Offsets : journal[TheKey].TossedTime + o > now
                        /\ now' = journal[TheKey].TossedTime + o
  /\ UNCHANGED <<journal, fs, container, last, tossed, faults, proc>>

\* record.IsWipeable() at the current instant
AskWipeable ==
  /\ last' = [op |-> "IsWipeable", outcome |-> IsWipeable(journal[TheKey], now), at |-> now]
  /\ UNCHANGED <<journal, fs, container, now, tossed, faults, proc>>

NextWipeable == Elapse \/ AskWipeable

SpecWipeable == InitWipeable /\ [][NextWipeable]_vars

\* C14: from the toss time on, IsWipeable answers true exactly when the
\* whole days elapsed, floor((now - TossedTime) / 86400), have reached
\* WipeoutTime: a retention of 0 is due at once, a retention of n days is
\* due at n days exactly and not one second earlier.
C14_WholeDaysElapsed ==
  last.op = "IsWipeable" =>
    LET m == journal[TheKey]
    IN  /\ last.at >= m.TossedTime
        /\ last.outcome = ((last.at - m.TossedTime) \div DaySecs >= m.WipeoutTime)
        /\ m.WipeoutTime = 0 => last.outcome
        /\ last.at - m.TossedTime = m.WipeoutTime * DaySecs => last.outcome
        /\ last.at - m.TossedTime = m.WipeoutTime * DaySecs - 1 => ~last.outcome

\* the default retention of 30 days, asked at 30 days exactly: due
C14_Witness ==
  /\ last.op = "IsWipeable"
  /\ journal[TheKey].WipeoutTime = DefaultWipeoutTime
  /\ last.at - journal[TheKey].TossedTime = DefaultWipeoutTime * DaySecs
  /\ last.outcome = TRUE

(***************************************************************************)
(* Local scope of the status listing.  Paths are strings in the journal:   *)
(* a path is rendered as its characters, and GetContainerItems compares    *)
(* the rendered strings.  Records are added for objects of /w, /w/sub and  *)
(* the sibling directory /w/subx.                                          *)
(***************************************************************************)
\* the characters of a name
Chars(name) ==
  CASE name = "w"    -> <<"w">>
    [] name = "a"    -> <<"a">>
    [] name = "sub"  -> <<"s", "u", "b">>
    [] name = "subx" -> <<"s", "u", "b", "x">>

\* an absolute path as the string the journal stores
RECURSIVE Render(_)
Render(p) == IF p = <<>> THEN <<>> ELSE <<"/">> \o Chars(Head(p)) \o Render(Tail(p))

\* strings.HasPrefix
HasPrefix(s, prefix) == Len(prefix) <= Len(s) /\ SubSeq(s, 1, Len(prefix)) = prefix

\* Journal.GetContainerItems: the records whose Origin string starts with
\* the container string
GetContainerItems(j, cont) ==
  LET Inside(r) == HasPrefix(Render(r.Origin), Render(cont))
  IN  SelectSeq(List(j), Inside)

ScopeOrigins == {<<"w", "a">>, <<"w", "sub", "a">>, <<"w", "subx", "a">>}

InitScope ==
  /\ journal = <<>>
  /\ fs = <<>>
  /\ container = <<>>
  /\ now = 0
  /\ last = [op |-> "none", outcome |-> "none"]
  /\ tossed = [k \in Keys |-> {}]
  /\ faults = 0
  /\ proc = Idle

\* a record enters the journal (Journal.Add with an absolute path)
Record(key, origin) ==
  /\ journal' = Add(journal, fs, <<"w">>, key, [abs |-> TRUE, comps |-> origin], 1, now)
  /\ UNCHANGED <<fs, container, now, last, tossed, faults, proc>>

\* status.Command: every record, or the records of the working directory;
\* it lists them and counts the ones that are due
StatusCommand(wd, global) ==
  LET records == IF global THEN List(journal) ELSE GetContainerItems(journal, wd)
      Due(r)  == IsWipeable(r, now)
  IN  /\ last' = [op |-> "status", outcome |-> "ok", wd |-> wd, global |-> global,
                  shown |-> Items(records), toWipeCount |-> Len(SelectSeq(records, Due))]
      /\ UNCHANGED <<journal, fs, container, now, tossed, faults, proc>>

NextScope ==
  \/ \E key \in Keys, origin \in ScopeOrigins : Record(key, origin)
  \/ \E wd \in WorkingDirs, global \in BOOLEAN : StatusCommand(wd, global)

SpecScope == InitScope /\ [][NextScope]_vars

\* C15 as stated: for every directory and every journal content the
\* local-scope query returns exactly the records whose Origin lies inside
\* the directory's subtree, by whole path components, and none outside it.
C15_Original ==
  \A dir \in WorkingDirs :
    LET InSubtree(r) == IsPrefix(dir, r.Origin)
    IN  GetContainerItems(journal, dir) = SelectSeq(List(journal), InSubtree)

(***************************************************************************)
(* The access decision.  A principal (root or not) meets an object and its *)
(* directory, each with an owner, a group and write bits; validateAccess   *)
(* is asked once.                                                          *)
(***************************************************************************)
Situations == [root : BOOLEAN, obj : Stats, parent : Stats]

InitAccess ==
  /\ journal = <<>>
  /\ fs = <<>>
  /\ container = <<>>
  /\ now = 0
  /\ last = [op |-> "none", outcome |-> "none"]
  /\ tossed = [k \in Keys |-> {}]
  /\ faults = 0
  /\ \E acc \in Situations : proc = [pc |-> "validateAccess", acc |-> acc]

\* validateAccess(item): the verdict, and the write decisions it rests on
AskAccess ==
  /\ proc.pc = "validateAccess"
  /\ last' = [op      |-> "validateAccess",
              outcome |-> validateAccess(proc.acc),
              object  |-> proc.acc.root \/ checkWritePermission(proc.acc.obj),
              dir     |-> proc.acc.root \/ validateParentDirAccess(proc.acc.parent)]
  /\ proc' = [proc EXCEPT !.pc = "done"]
  /\ UNCHANGED <<journal, fs, container, now, tossed, faults>>

NextAccess == AskAccess

SpecAccess == InitAccess /\ [][NextAccess]_vars

\* the rule of exactly one permission class: the owner needs the owner
\* write bit, else a member of the group needs the group write bit, else
\* the other write bit is needed
OneClassRule(st) ==
  IF st.owner THEN "uw" \in st.mode
  ELSE IF st.inGroup THEN "gw" \in st.mode
  ELSE "ow" \in st.mode

\* C16 as stated: the write decision on an object is that of uid 0, which
\* always passes, or else of exactly one permission class.
C16_Original ==
  last.op = "validateAccess" =>
    last.object = (proc.acc.root \/ OneClassRule(proc.acc.obj))

\* C17 as stated: for a principal other than root, validateAccess succeeds
\* only if the directory of the object passes the one-class write rule too.
C17_Original ==
  (last.op = "validateAccess" /\ ~proc.acc.root /\ last.outcome = TRUE) =>
    OneClassRule(proc.acc.parent)

\* what does hold of the directory: success needs the directory to pass the
\* write decision that the code makes, and a directory without any write
\* bit is refused
C17_DirectoryConsulted ==
  (last.op = "validateAccess" /\ ~proc.acc.root /\ last.outcome = TRUE) =>
    /\ checkWritePermission(proc.acc.parent)
    /\ proc.acc.parent.mode # {}

(***************************************************************************)
(* The access gate in the other two commands                               *)
(***************************************************************************)
\* C18 as stated: restore and wipe change the journal or the filesystem
\* for an item only after the access check has passed for that item: in an
\* access situation that validateAccess refuses, they change nothing.
C18_Original ==
  \A acc \in AccessCases :
    ~validateAccess(acc) =>
      /\ \A wd \in WorkingDirs, file \in Keys, override \in BOOLEAN :
           Restore(World, wd, file, override, "none").w = World
      /\ \A k \in DOMAIN journal :
           executeWipe(World, journal[k], "none").w = World

(***************************************************************************)
(* Toss, one call at a time.  The process validates, writes the record,    *)
(* renames, and on a failed rename deletes the record again; each call is  *)
(* a step, and the process may be stopped between any two steps.           *)
(***************************************************************************)
InitSteps == Init

\* tosser.Command up to the first call of Toss: os.Stat, validateAccess,
\* and the destination name
BeginToss(wd, item, wipeoutTime, sfx, acc) ==
  /\ proc = Idle
  /\ IF ~StatOK(fs, Abs(wd, item))
       THEN /\ last' = [op |-> "toss", outcome |-> "invalid"]
            /\ proc' = proc
     ELSE IF ~validateAccess(acc)
       THEN /\ last' = [op |-> "toss", outcome |-> "denied"]
            /\ proc' = proc
     ELSE /\ last' = [op |-> "toss", outcome |-> "running"]
          /\ proc' = [pc |-> "AddFileByName", wd |-> wd, item |-> item,
                      wipeoutTime |-> wipeoutTime, key |-> DestName(item, sfx),
                      fresh |-> DestName(item, sfx) \notin DOMAIN journal \cup DOMAIN container]
  /\ UNCHANGED <<journal, fs, container, now, tossed, faults>>

\* cfg.Journal.AddFileByName returns: the record is stored, or an error
AddStep(fails) ==
  /\ proc.pc = "AddFileByName"
  /\ Inject(IF fails THEN "add" ELSE "none")
  /\ IF fails
       THEN /\ last' = [op |-> "toss", outcome |-> "journal_error"]
            /\ proc' = Idle
            /\ UNCHANGED journal
       ELSE /\ journal' = Add(journal, fs, proc.wd, proc.key, proc.item, proc.wipeoutTime, now)
            /\ proc' = [proc EXCEPT !.pc = "Rename"]
            /\ UNCHANGED last
  /\ UNCHANGED <<fs, container, now, tossed>>

\* os.Rename(item, destination) returns
RenameStep(fails) ==
  /\ proc.pc = "Rename"
  /\ Inject(IF fails THEN "rename" ELSE "none")
  /\ LET src   == Abs(proc.wd, proc.item)
         moved == ~fails /\ RenameAllowed(At(fs, src), At(container, proc.key))
     IN  IF moved
           THEN /\ fs' = [p \in DOMAIN fs \ {src} |-> fs[p]]
                /\ container' = [k \in DOMAIN container \cup {proc.key} |->
                                   IF k = proc.key THEN fs[src] ELSE container[k]]
                /\ tossed' = [tossed EXCEPT ![proc.key] = @ \cup {fs[src]}]
                /\ last' = [op |-> "toss", outcome |-> "ok"]
                /\ proc' = Idle
           ELSE /\ proc' = [proc EXCEPT !.pc = "Delete"]
                /\ UNCHANGED <<fs, container, tossed, last>>
  /\ UNCHANGED <<journal, now>>

\* cfg.Journal.Delete after the failed rename returns
DeleteStep(fails) ==
  /\ proc.pc = "Delete"
  /\ Inject(IF fails THEN "rename_delete" ELSE "none")
  /\ IF fails
       THEN /\ last' = [op |-> "toss", outcome |-> "compensation_failed"]
            /\ UNCHANGED journal
       ELSE /\ journal' = Delete(journal, proc.key)
            /\ last' = [op |-> "toss", outcome |-> "rename_failed"]
  /\ proc' = Idle
  /\ UNCHANGED <<fs, container, now, tossed>>

\* the process is stopped between two calls
Stop ==
  /\ proc # Idle
  /\ proc' = Idle
  /\ last' = [op |-> "toss", outcome |-> "stopped"]
  /\ UNCHANGED <<journal, fs, container, now, tossed, faults>>

NextSteps ==
  \/ \E wd \in WorkingDirs, item \in TossArgs, wt \in 1..MaxRetention, sfx \in Suffixes,
        acc \in AccessCases : BeginToss(wd, item, wt, sfx, acc)
  \/ \E fails \in BOOLEAN : AddStep(fails)
  \/ \E fails \in BOOLEAN : RenameStep(fails)
  \/ \E fails \in BOOLEAN : DeleteStep(fails)
  \/ Stop

SpecSteps == InitSteps /\ [][NextSteps]_vars

\* C19 as stated: the record is written before the rename is attempted, so
\* wherever Toss is stopped, no entry of the container is without a record
\* in the journal.
C19_Original == DOMAIN container \subseteq DOMAIN journal

\* the order of the two writes: an entry enters the container only in the
\* rename step, after AddFileByName has returned, with the record of its
\* key and origin in the journal
C19_JournalBeforeRename ==
  [][container' # container =>
       /\ proc.pc = "Rename"
       /\ proc.key \in DOMAIN journal
       /\ journal[proc.key].Item = proc.key
       /\ journal[proc.key].Origin = Abs(proc.wd, proc.item)
       /\ journal' = journal]_vars

\* an entry loses its record only in the Delete after a failed rename of a
\* toss whose key was already taken
C19_OnlyByCollision ==
  [][(DOMAIN container \subseteq DOMAIN journal
        /\ ~(DOMAIN container' \subseteq DOMAIN journal')) =>
       proc.pc = "Delete" /\ ~proc.fresh]_vars

(***************************************************************************)
(* main, one run of the program after the other.  A run loads the          *)
(* configuration, which opens the journal, defers its Close, looks for the *)
(* container directory, and dispatches on the command name; it ends by     *)
(* returning from main or by os.Exit.                                      *)
(***************************************************************************)
\* os.Exit(code): the process ends at once, deferred calls do not run
osExit(p, code) == [p EXCEPT !.pc = "exited", !.code = code]

\* return from main: the deferred cfg.Journal.Close() runs
mainReturn(p) == [p EXCEPT !.pc = "exited", !.code = 0, !.closes = @ + 1]

InitMain == Init

StartMain ==
  /\ proc.pc \in {"idle", "exited"}
  /\ proc' = [pc |-> "loadConfig", opened |-> FALSE, closes |-> 0, code |-> 0]
  /\ UNCHANGED <<journal, fs, container, now, last, tossed, faults>>

\* loadConfig: config.Load ends with Journal.Load, which opens the handle
LoadConfig(ok) ==
  /\ proc.pc = "loadConfig"
  /\ proc' = IF ok THEN [proc EXCEPT !.pc = "container", !.opened = TRUE]
             ELSE osExit(proc, 1)
  /\ UNCHANGED <<journal, fs, container, now, last, tossed, faults>>

\* the container directory exists, or os.MkdirAll creates it or fails
CheckContainer(missing, mkdirFails) ==
  /\ proc.pc = "container"
  /\ proc' = IF missing /\ mkdirFails THEN osExit(proc, 1)
             ELSE [proc EXCEPT !.pc = "dispatch"]
  /\ UNCHANGED <<journal, fs, container, now, last, tossed, faults>>

HelpCommand(fails) ==
  /\ proc.pc = "dispatch"
  /\ proc' = IF fails THEN osExit(proc, 2) ELSE mainReturn(proc)
  /\ last' = [op |-> "help", outcome |-> IF fails THEN "error" ELSE "ok"]
  /\ UNCHANGED <<journal, fs, container, now, tossed, faults>>

UnknownCommand ==
  /\ proc.pc = "dispatch"
  /\ proc' = osExit(proc, 1)
  /\ last' = [op |-> "unknown", outcome |-> "error"]
  /\ UNCHANGED <<journal, fs, container, now, tossed, faults>>

\* cmd.Action of toss with one path
RunToss(wd, item, wipeoutTime, sfx, acc, fault) ==
  /\ proc.pc = "dispatch"
  /\ \E r \in {tosserCommand(World, wd, <<item>>, wipeoutTime, <<sfx>>, <<acc>>, <<fault>>, now)} :
       /\ Inject(fault)
       /\ journal' = r.w.journal
       /\ fs' = r.w.fs
       /\ container' = r.w.container
       /\ last' = [op |-> "toss", outcome |-> r.outcome]
       /\ tossed' = IF r.outcome = "ok"
                      THEN [tossed EXCEPT ![DestName(item, sfx)] = @ \cup {At(fs, Abs(wd, item))}]
                      ELSE tossed
       /\ proc' = IF r.outcome = "ok" THEN mainReturn(proc) ELSE osExit(proc, 2)
  /\ UNCHANGED now

\* cmd.Action of restore with one key
RunRestore(wd, file, override, fault) ==
  /\ proc.pc = "dispatch"
  /\ \E r \in {restorerCommand(World, wd, <<file>>, override, <<fault>>)} :
       /\ Inject(fault)
       /\ journal' = r.w.journal
       /\ fs' = r.w.fs
       /\ container' = r.w.container
       /\ last' = [op |-> "restore", outcome |-> r.outcome]
       /\ tossed' = Forget(tossed, r.w)
       /\ proc' = IF r.outcome = "ok" THEN mainReturn(proc) ELSE osExit(proc, 2)
  /\ UNCHANGED now

\* cmd.Action of wipe without named items, every prompt answered "y"
RunWipe(wd, mode, listFault) ==
  /\ proc.pc = "dispatch"
  /\ \E r \in {Wipe(World, wd, mode, <<>>, Always("y"), Always("none"), listFault, now)} :
       /\ Inject(IF listFault THEN "list" ELSE "none")
       /\ journal' = r.w.journal
       /\ container' = r.w.container
       /\ last' = [op |-> "wipe", outcome |-> Report(r), per |-> r.per]
       /\ tossed' = Forget(tossed, r.w)
       /\ proc' = IF r.outcome \in {"done", "nothing"} THEN mainReturn(proc)
                  ELSE osExit(proc, 2)
  /\ UNCHANGED <<fs, now>>

NextMain ==
  \/ StartMain
  \/ \E ok \in BOOLEAN : LoadConfig(ok)
  \/ \E missing \in BOOLEAN, mkdirFails \in BOOLEAN : CheckContainer(missing, mkdirFails)
  \/ \E fails \in BOOLEAN : HelpCommand(fails)
  \/ UnknownCommand
  \/ \E wd \in WorkingDirs, item \in TossArgs, wt \in 1..MaxRetention, sfx \in Suffixes,
        acc \in AccessCases, fault \in TossFaults : RunToss(wd, item, wt, sfx, acc, fault)
  \/ \E wd \in WorkingDirs, file \in Keys, override \in BOOLEAN, fault \in RestoreFaults :
       RunRestore(wd, file, override, fault)
  \/ \E wd \in WorkingDirs, mode \in WipeModes, listFault \in BOOLEAN :
       RunWipe(wd, mode, listFault)

SpecMain == InitMain /\ [][NextMain]_vars

\* C20 as stated: on every exit path of main, the journal handle that was
\* opened at startup has been closed exactly once when the process exits.
C20_Original == (proc.pc = "exited" /\ proc.opened) => proc.closes = 1

\* what does hold: the handle is closed once when main returns, and never
\* more than once
C20_ClosedOnReturn ==
  proc.pc \notin {"idle", "loadConfig"} =>
    /\ proc.closes <= 1
    /\ (proc.pc = "exited" /\ proc.opened /\ proc.code = 0) => proc.closes = 1

(***************************************************************************)
(* What the returned errors carry                                          *)
(***************************************************************************)
\* C21 as stated: when the compensating journal action fails too (toss: the
\* Delete after a failed rename; wipe: the re-insert after a failed
\* removal), the error returned carries both the filesystem error and the
\* error of the compensation.
C21_Original ==
  /\ \A c \in TossCalls :
       TossOf(c).outcome = "compensation_failed" =>
         {"Rename", "Delete"} \subseteq TossErrors(TossOf(c).outcome)
  /\ \A k \in DOMAIN journal :
       LET r == executeWipe(World, journal[k], "remove_readd")
       IN  k \notin DOMAIN r.w.journal =>
             {"RemoveAll", "AddRecord"} \subseteq executeWipeErrors("remove_readd")

(***************************************************************************)
(* The record written by toss                                              *)
(***************************************************************************)
\* C22 as stated: the Type of the record written at toss time is the type
\* of the source object, inspected before the move without following
\* symbolic links.
C22_Original ==
  \A c \in TossCalls :
    LET r   == TossOf(c)
        key == DestName(c.item, c.sfx)
    IN  r.outcome = "ok" => r.w.journal[key].Type = getType(fs, Abs(c.wd, c.item))

(***************************************************************************)
(* The name of the container entry.  The path is the string typed on the   *)
(* command line; Toss appends "_" and the suffix to that string and takes  *)
(* filepath.Base of the result.                                            *)
(***************************************************************************)
SufixSize == 6

\* a bounded part of the charset of NameSufix
Charset == {"A", "9"}

\* the strings NameSufix(size) can return
NameSufix(size) == [1..size -> Charset]

\* the path strings typed in the working directory /w or /w/sub
WrittenPaths ==
  { <<"a">>,
    <<"a", "/">>,
    <<".", ".", "/", "a">>,
    <<"s", "u", "b", "/", "a">>,
    <<"s", "u", "b", "/", "a", "/">>,
    <<"/", "w", "/", "s", "u", "b", "/", "a">>,
    <<"/", "w", "/", "s", "u", "b", "/", "a", "/", "/">> }

\* the string without its trailing separators
RECURSIVE StripSeparators(_)
StripSeparators(s) ==
  IF s # <<>> /\ s[Len(s)] = "/" THEN StripSeparators(SubSeq(s, 1, Len(s) - 1)) ELSE s

\* the part of the string after its last separator
RECURSIVE AfterLastSeparator(_)
AfterLastSeparator(s) ==
  IF s = <<>> \/ s[Len(s)] = "/" THEN <<>>
  ELSE Append(AfterLastSeparator(SubSeq(s, 1, Len(s) - 1)), s[Len(s)])

\* filepath.Base
filepathBase(s) ==
  IF s = <<>> THEN <<".">>
  ELSE LET b == AfterLastSeparator(StripSeparators(s))
       IN  IF b = <<>> THEN <<"/">> ELSE b

\* filepath.Base(item + "_" + NameSufix(6))
destinationName(item, sfx) == filepathBase(item \o <<"_">> \o sfx)

\* the names between the separators of a path string
RECURSIVE SplitPath(_)
SplitPath(s) ==
  IF StripSeparators(s) = <<>> THEN <<>>
  ELSE LET t == StripSeparators(s)
           b == AfterLastSeparator(t)
       IN  Append(SplitPath(SubSeq(t, 1, Len(t) - Len(b))), b)

NameOf(cs) ==
  IF cs = <<".", ".">> THEN ".."
  ELSE CHOOSE n \in {"w", "a", "sub", "subx"} : Chars(n) = cs

\* a path string as command-line argument of the model
Parsed(s) ==
  [abs |-> s[1] = "/", comps |-> [i \in 1..Len(SplitPath(s)) |-> NameOf(SplitPath(s)[i])]]

\* os.Stat(file) of tosser.Command succeeds: the object exists, and is a
\* directory when the string ends with a separator
Accepted(f, wd, s) ==
  /\ StatOK(f, Abs(wd, Parsed(s)))
  /\ s[Len(s)] = "/" => At(f, Abs(wd, Parsed(s))).kind = "dir"

InitName ==
  /\ journal = <<>>
  /\ \E f \in InitFS : fs = [p \in {q \in Places : f[q].kind # "none"} |-> f[p]]
  /\ container = <<>>
  /\ now = 0
  /\ last = [op |-> "none", outcome |-> "none"]
  /\ tossed = [k \in Keys |-> {}]
  /\ faults = 0
  /\ \E wd \in WorkingDirs, s \in WrittenPaths : proc = [pc |-> "Command", wd |-> wd, item |-> s]

\* tosser.Command on the path, up to the destination name computed by Toss
NameDestination(sfx) ==
  /\ proc.pc = "Command"
  /\ IF Accepted(fs, proc.wd, proc.item)
       THEN last' = [op |-> "destination", outcome |-> destinationName(proc.item, sfx),
                     sfx |-> sfx]
       ELSE last' = [op |-> "toss", outcome |-> "invalid"]
  /\ proc' = [proc EXCEPT !.pc = "done"]
  /\ UNCHANGED <<journal, fs, container, now, tossed, faults>>

NextName == \E sfx \in NameSufix(SufixSize) : NameDestination(sfx)

SpecName == InitName /\ [][NextName]_vars

\* C23 as stated: for every path that toss accepts, however it is written,
\* the name of the container entry is the basename of the path followed by
\* "_" and a suffix of 6 uppercase letters and digits.
C23_Original ==
  last.op = "destination" =>
    /\ last.outcome = filepathBase(proc.item) \o <<"_">> \o last.sfx
    /\ Len(last.sfx) = SufixSize

\* what does hold: the name has that form for every accepted path that
\* does not end with a separator
C23_WithoutTrailingSeparator ==
  (last.op = "destination" /\ proc.item[Len(proc.item)] # "/") =>
    /\ last.outcome = filepathBase(proc.item) \o <<"_">> \o last.sfx
    /\ Len(last.sfx) = SufixSize
    /\ last.outcome = Chars(Base(Parsed(proc.item).comps)) \o <<"_">> \o last.sfx

(***************************************************************************)
(* The restore target                                                      *)
(***************************************************************************)
\* C24: whenever restore moves an object out of the container, the object
\* arrives at the basename of the record's Origin inside the working
\* directory, and no other place of the filesystem changes: in particular
\* not the original path, when the object was tossed from a subdirectory.
C24_TargetInWorkingDir ==
  \A wd \in WorkingDirs, file \in Keys, override \in BOOLEAN, fault \in RestoreFaults :
    LET r      == Restore(World, wd, file, override, fault)
        target == wd \o <<Base(journal[file].Origin)>>
    IN  (file \in DOMAIN container /\ file \notin DOMAIN r.w.container) =>
          /\ At(r.w.fs, target) = container[file]
          /\ \A p \in (DOMAIN fs \cup DOMAIN r.w.fs) \ {target} : At(r.w.fs, p) = At(fs, p)

\* the object tossed from /w/sub has been restored in /w
C24_Witness ==
  /\ last.op = "restore" /\ last.outcome = "ok"
  /\ At(fs, <<"w", "a">>).data = "d2"

(***************************************************************************)
(* info: one record, by name or by position in the listing.  Records are   *)
(* added to and deleted from the journal, and info is asked.               *)
(***************************************************************************)
NoRecord == [Item |-> NoKey]

\* Journal.Get: the record of the key, or the error of txn.Get
Get(j, item) ==
  IF item \in DOMAIN j THEN [err |-> "none", record |-> j[item]]
  ELSE [err |-> "not_found", record |-> NoRecord]

\* the int of the program and the float64 of math.Abs, scaled down: an int
\* has IntBits bits, a float64 keeps MantBits significant bits
MaxInt == 2^(IntBits - 1) - 1
MinInt == -(2^(IntBits - 1))

\* the positions -p can be given
Positions == MinInt..MaxInt

\* the builds: what int(f) gives for an f beyond the int range differs
Builds == {"amd64", "arm64"}

\* a natural number rounded to MantBits significant bits, ties to even
RECURSIVE Ulp(_, _)
Ulp(a, step) == IF a < step * 2^MantBits THEN step ELSE Ulp(a, 2 * step)

RoundToFloat(a) ==
  LET step == Ulp(a, 1)
      q    == a \div step
      rem  == a % step
  IN  IF 2 * rem < step THEN q * step
      ELSE IF 2 * rem > step THEN (q + 1) * step
      ELSE IF q % 2 = 0 THEN q * step
      ELSE (q + 1) * step

\* math.Abs(float64(n))
mathAbs(n) == RoundToFloat(IF n < 0 THEN -n ELSE n)

\* int(f) for f >= 0: the value, or what the build gives beyond MaxInt
intOf(f, build) ==
  IF f <= MaxInt THEN f
  ELSE IF build = "amd64" THEN MinInt
  ELSE MaxInt

\* i-- on an int
Decrement(i) == IF i = MinInt THEN MaxInt ELSE i - 1

Reverse(list) == [i \in 1..Len(list) |-> list[Len(list) + 1 - i]]

\* list[i] with a zero-based index: the element, or the run-time panic
Index(list, i) ==
  IF 0 <= i /\ i < Len(list) THEN [err |-> "none", record |-> list[i + 1]]
  ELSE [err |-> "panic: index out of range", record |-> NoRecord]

\* retrieveByPosition: i = int(math.Abs(float64(byPosition))), rejected
\* beyond the list, then the index i - 1 into the list, which is reversed
\* for a negative position
retrieveByPosition(j, byPosition, build) ==
  LET list == List(j)
      i    == intOf(mathAbs(byPosition), build)
  IN  IF i > Len(list)
        THEN [err |-> "invalid item position", record |-> NoRecord]
      ELSE IF byPosition < 0
        THEN Index(Reverse(list), Decrement(i))
      ELSE Index(list, Decrement(i))

retrieveByName(j, name) == Get(j, name)

InitInfo == InitScope

\* a record leaves the journal (Journal.Delete)
Unrecord(key) ==
  /\ key \in DOMAIN journal
  /\ journal' = Delete(journal, key)
  /\ UNCHANGED <<fs, container, now, last, tossed, faults, proc>>

\* info.Command: by position when -p is not 0, else by name
InfoCommand(byPosition, name, build) ==
  /\ \E r \in {IF byPosition # 0 THEN retrieveByPosition(journal, byPosition, build)
               ELSE retrieveByName(journal, name)} :
       last' = [op |-> "info", outcome |-> r.err, p |-> byPosition, record |-> r.record]
  /\ UNCHANGED <<journal, fs, container, now, tossed, faults, proc>>

NextInfo ==
  \/ \E key \in Keys, origin \in ScopeOrigins : Record(key, origin)
  \/ \E key \in Keys : Unrecord(key)
  \/ \E byPosition \in Positions :
       \E name \in Only(Keys, byPosition = 0), build \in Only(Builds, byPosition # 0) :
         InfoCommand(byPosition, name, build)

SpecInfo == InitInfo /\ [][NextInfo]_vars

\* the listing has every record once, in ascending order of Item
ListInKeyOrder ==
  LET list == List(journal)
      N    == Len(list)
  IN  /\ N = Cardinality(DOMAIN journal)
      /\ \A i \in 1..N : list[i] = journal[list[i].Item]
      /\ \A i \in 1..N, k \in 1..N : i < k => KeyIndex(list[i].Item) < KeyIndex(list[k].Item)

\* what position p must give over the listing
ByPosition(p, r) ==
  LET list == List(journal)
      N    == Len(list)
  IN  /\ (1 <= p /\ p <= N) => r.err = "none" /\ r.record = list[p]
      /\ (-N <= p /\ p <= -1) => r.err = "none" /\ r.record = list[N + 1 + p]
      /\ (p > N \/ p < -N) => r.err = "invalid item position"

\* C25 as stated: over the N records of the journal listed in ascending
\* order of Item, position p in 1..N gives the p-th record, position p in
\* -N..-1 gives the |p|-th record from the end (-1 the last), and every
\* position with |p| > N is rejected as an invalid item position, without
\* indexing out of range.
C25_Original ==
  /\ ListInKeyOrder
  /\ \A p \in Positions \ {0}, build \in Builds :
       ByPosition(p, retrieveByPosition(journal, p, build))

\* what does hold: the claim for every position that float64 holds exactly
\* and whose absolute value is an int
C25_ExactPositions ==
  /\ ListInKeyOrder
  /\ \A p \in (-(2^MantBits))..(2^MantBits), build \in Builds :
       (p # 0 /\ p # MinInt) => ByPosition(p, retrieveByPosition(journal, p, build))

(***************************************************************************)
(* status with its flags -g, -s and -w.  Records are added at different    *)
(* times for objects of different directories, time passes, and status is  *)
(* asked.                                                                  *)
(***************************************************************************)
\* Journal.FilterWipeable: every record that is due
FilterWipeable(j, t) ==
  LET Due(r) == IsWipeable(r, t)
  IN  SelectSeq(List(j), Due)

StatusFlags == [g : BOOLEAN, s : BOOLEAN, w : BOOLEAN]

StatusFaults == {"none", "BinSize", "journal"}

\* retrieveJournalRecords: -g, else -w, else the working directory
retrieveJournalRecords(j, wd, flags, t) ==
  IF flags.g THEN List(j)
  ELSE IF flags.w THEN FilterWipeable(j, t)
  ELSE FilterPath(j, wd)

\* the loop of status.Command: the records that are due are counted
RECURSIVE CountWipeables(_, _)
CountWipeables(records, t) ==
  IF records = <<>> THEN 0
  ELSE (IF IsWipeable(Head(records), t) THEN 1 ELSE 0) + CountWipeables(Tail(records), t)

Silent(err) == [err |-> err, listed |-> FALSE, shown |-> {}, total |-> 0, wipeables |-> 0]

\* status.Command that counts every listed record as wipeable
statusCommand_CountsAll(j, wd, flags, fault, t) ==
  LET records == retrieveJournalRecords(j, wd, flags, t)
  IN  IF fault = "BinSize" THEN Silent("BinSize")
      ELSE IF flags.s THEN Silent("none")
      ELSE IF fault = "journal" THEN Silent("journal")
      ELSE IF Len(records) = 0 THEN Silent("none")
      ELSE [err |-> "none", listed |-> TRUE, shown |-> Items(records),
            total |-> Len(records), wipeables |-> Len(records)]

\* status.Command: the bin size, then the selected records, each listed,
\* and the line "Total: count | Wipable: wipeables"
statusCommand(j, wd, flags, fault, t) ==
  LET records == retrieveJournalRecords(j, wd, flags, t)
  IN  IF fault = "BinSize" THEN Silent("BinSize")
      ELSE IF flags.s THEN Silent("none")
      ELSE IF fault = "journal" THEN Silent("journal")
      ELSE IF Len(records) = 0 THEN Silent("none")
      ELSE [err |-> "none", listed |-> TRUE, shown |-> Items(records),
            total |-> Len(records), wipeables |-> CountWipeables(records, t)]

InitStatus == InitScope

Status(wd, flags, fault) ==
  /\ \E r \in {statusCommand(journal, wd, flags, fault, now)} :
       last' = [op |-> "status", outcome |-> r.err, listed |-> r.listed, shown |-> r.shown,
                total |-> r.total, wipeables |-> r.wipeables]
  /\ UNCHANGED <<journal, fs, container, now, tossed, faults, proc>>

NextStatus ==
  \/ \E key \in Keys, origin \in ScopeOrigins : Record(key, origin)
  \/ Tick
  \/ \E wd \in WorkingDirs, flags \in StatusFlags, fault \in StatusFaults :
       Status(wd, flags, fault)

SpecStatus == InitStatus /\ [][NextStatus]_vars

\* C26 as stated: whenever status runs without -g, with any combination of
\* its other flags, every record it lists has its Origin inside the subtree
\* of the working directory.
C26_Original ==
  \A wd \in WorkingDirs, flags \in StatusFlags :
    ~flags.g =>
      \A k \in statusCommand(journal, wd, flags, "none", now).shown :
        IsPrefix(wd, journal[k].Origin)

\* what does hold: without -g and without -w every listed record is local
C26_LocalWithoutW ==
  \A wd \in WorkingDirs, flags \in StatusFlags :
    (~flags.g /\ ~flags.w) =>
      \A k \in statusCommand(journal, wd, flags, "none", now).shown :
        IsPrefix(wd, journal[k].Origin)

\* C27: when status lists records, Total is the number of records of the
\* selected set and Wipable is the number of those for which IsWipeable is
\* true.
C27_TotalAndWipable ==
  \A wd \in WorkingDirs, flags \in StatusFlags :
    LET r        == statusCommand(journal, wd, flags, "none", now)
        selected == retrieveJournalRecords(journal, wd, flags, now)
    IN  /\ r.listed <=> (~flags.s /\ selected # <<>>)
        /\ r.listed =>
             /\ r.total = Cardinality(Items(selected))
             /\ r.wipeables = Cardinality({k \in Items(selected) : IsWipeable(journal[k], now)})

\* two local records, one of them past its retention: Total 2, Wipable 1
C27_Witness ==
  /\ last.op = "status" /\ last.outcome = "none" /\ last.listed
  /\ last.total = 2
  /\ last.wipeables = 1

(***************************************************************************)
(* The Journal object.  J = [db, data]: db is the handle of the object     *)
(* ("nil" before Load has succeeded, then "open", "closed" after Close),   *)
(* data is the store on disk, which outlives the object.                   *)
(***************************************************************************)
NotInitialized == "journal database is not initialized"

Result(J, err, value) == [J |-> J, err |-> err, value |-> value]

\* what an operation of the store returns once the store is closed
Closed(J) == Result(J, "db closed", <<>>)

\* Journal.Load: opens the store unless the object has a handle already
JournalLoad(J, fails) ==
  IF J.db # "nil" THEN Result(J, "none", <<>>)
  ELSE IF fails THEN Result(J, "error opening badger database", <<>>)
  ELSE Result([J EXCEPT !.db = "open"], "none", <<>>)

\* Journal.Close: Sync and Close when there is a handle, which is kept
JournalClose(J) ==
  IF J.db # "nil" THEN Result([J EXCEPT !.db = "closed"], "none", <<>>)
  ELSE Result(J, "none", <<>>)

\* Journal.Add / register
JournalAdd(J, item, origin, wipeoutTime, t) ==
  IF J.db = "nil" THEN Result(J, NotInitialized, <<>>)
  ELSE IF J.db = "closed" THEN Closed(J)
  ELSE Result([J EXCEPT !.data = Add(J.data, <<>>, <<"w">>, item,
                                     [abs |-> TRUE, comps |-> origin], wipeoutTime, t)],
              "none", <<>>)

JournalGet(J, item) ==
  IF J.db = "nil" THEN Result(J, NotInitialized, <<>>)
  ELSE IF J.db = "closed" THEN Closed(J)
  ELSE Result(J, Get(J.data, item).err, Get(J.data, item).record)

JournalList(J) ==
  IF J.db = "nil" THEN Result(J, NotInitialized, <<>>)
  ELSE IF J.db = "closed" THEN Closed(J)
  ELSE Result(J, "none", List(J.data))

\* Journal.Delete without the check of the handle
JournalDelete_Unguarded(J, item) ==
  IF J.db = "closed" THEN Closed(J)
  ELSE Result([J EXCEPT !.data = Delete(J.data, item)], "none", <<>>)

\* Journal.Delete that refuses a key without record
JournalDelete_AbsentFails(J, item) ==
  IF J.db = "nil" THEN Result(J, NotInitialized, <<>>)
  ELSE IF J.db = "closed" THEN Closed(J)
  ELSE IF item \notin DOMAIN J.data THEN Result(J, "not_found", <<>>)
  ELSE Result([J EXCEPT !.data = Delete(J.data, item)], "none", <<>>)

\* Journal.Delete: txn.Delete(key)
JournalDelete(J, item) ==
  IF J.db = "nil" THEN Result(J, NotInitialized, <<>>)
  ELSE IF J.db = "closed" THEN Closed(J)
  ELSE Result([J EXCEPT !.data = Delete(J.data, item)], "none", <<>>)

\* Journal.Clear: txn.Delete of every key
JournalClear(J) ==
  IF J.db = "nil" THEN Result(J, NotInitialized, <<>>)
  ELSE IF J.db = "closed" THEN Closed(J)
  ELSE Result([J EXCEPT !.data = <<>>], "none", <<>>)

JournalCount(J) ==
  IF J.db = "nil" THEN Result(J, NotInitialized, 0)
  ELSE IF J.db = "closed" THEN Closed(J)
  ELSE Result(J, "none", Len(List(J.data)))

\* the size of a stored value, as far as it varies here: the Origin string
ValueSize(r) == Len(Render(r.Origin))

RECURSIVE SumSizes(_)
SumSizes(records) ==
  IF records = <<>> THEN 0 ELSE ValueSize(Head(records)) + SumSizes(Tail(records))

JournalGetSize(J) ==
  IF J.db = "nil" THEN Result(J, NotInitialized, 0)
  ELSE IF J.db = "closed" THEN Closed(J)
  ELSE Result(J, "none", SumSizes(List(J.data)))

JournalGetAllItems(J) ==
  IF J.db = "nil" THEN Result(J, NotInitialized, <<>>)
  ELSE IF J.db = "closed" THEN Closed(J)
  ELSE Result(J, "none", List(J.data))

JournalGetContainerItems(J, cont) ==
  IF J.db = "nil" THEN Result(J, NotInitialized, <<>>)
  ELSE IF JournalGetAllItems(J).err # "none"
    THEN Result(J, JournalGetAllItems(J).err, <<>>)
  ELSE Result(J, "none", GetContainerItems(J.data, cont))

\* the operations other than Load and Close
JournalOps ==
  {"Add", "Get", "List", "Delete", "Clear", "Count", "GetSize", "GetAllItems",
   "GetContainerItems"}

\* one call: the operation, with a key, a path and a directory as it needs
Call(J, op, item, origin, cont, t) ==
  CASE op = "Add"               -> JournalAdd(J, item, origin, 1, t)
    [] op = "Get"               -> JournalGet(J, item)
    [] op = "List"              -> JournalList(J)
    [] op = "Delete"            -> JournalDelete(J, item)
    [] op = "Clear"             -> JournalClear(J)
    [] op = "Count"             -> JournalCount(J)
    [] op = "GetSize"           -> JournalGetSize(J)
    [] op = "GetAllItems"       -> JournalGetAllItems(J)
    [] op = "GetContainerItems" -> JournalGetContainerItems(J, cont)

TheJournal == [db |-> proc.db, data |-> journal]

InitJournal ==
  /\ journal = <<>>
  /\ fs = <<>>
  /\ container = <<>>
  /\ now = 0
  /\ last = [op |-> "none", outcome |-> "none"]
  /\ tossed = [k \in Keys |-> {}]
  /\ faults = 0
  /\ proc = [pc |-> "journal", db |-> "nil"]

\* a new Journal object over the same store (a new run of the program)
NewJournal ==
  /\ proc.db # "nil"
  /\ proc' = [proc EXCEPT !.db = "nil"]
  /\ last' = [op |-> "new", outcome |-> "none"]
  /\ UNCHANGED <<journal, fs, container, now, tossed, faults>>

\* the call returns: the object and the store are as the operation left
\* them; old is the record the key of the call had before
Returned(op, r, item) ==
  /\ journal' = r.J.data
  /\ proc' = [proc EXCEPT !.db = r.J.db]
  /\ last' = [op |-> op, outcome |-> r.err, value |-> r.value, item |-> item,
              old |-> Get(journal, item).record]
  /\ UNCHANGED <<fs, container, now, tossed, faults>>

LoadCall(fails) ==
  /\ proc.pc = "journal"
  /\ Returned("Load", JournalLoad(TheJournal, fails), NoKey)

CloseCall ==
  /\ proc.pc = "journal"
  /\ Returned("Close", JournalClose(TheJournal), NoKey)

OpCall(op, item, origin, cont) ==
  /\ proc.pc = "journal"
  /\ Returned(op, Call(TheJournal, op, item, origin, cont, now), item)

NextJournal ==
  \/ NewJournal
  \/ \E fails \in BOOLEAN : LoadCall(fails)
  \/ CloseCall
  \/ \E op \in JournalOps :
       \E item \in IF op \in {"Add", "Get", "Delete"} THEN Keys ELSE {NoKey},
          origin \in Only(ScopeOrigins, op = "Add"),
          cont \in Only(WorkingDirs, op = "GetContainerItems") :
         OpCall(op, item, origin, cont)
  \/ Tick

SpecJournal == InitJournal /\ [][NextJournal]_vars

C29_DeleteIdempotent ==
  proc.db = "open" =>
    \A item \in Keys :
      LET r == JournalDelete(TheJournal, item)
      IN  /\ r.err = "none"
          /\ item \notin DOMAIN journal => r.J = TheJournal
          /\ JournalGet(r.J, item).err = "not_found"
          /\ \A k \in Keys \ {item} : JournalGet(r.J, k).value = JournalGet(TheJournal, k).value
          /\ JournalDelete(r.J, item).err = "none"
          /\ JournalDelete(r.J, item).J = r.J

\* the record of a key has been deleted while another record stays
C29_Witness ==
  /\ proc.db = "open"
  /\ last.op = "Delete" /\ last.outcome = "none"
  /\ last.old # NoRecord
  /\ last.item \notin DOMAIN journal
  /\ journal # <<>>

\* C30: Journal.Add(item, path, days) leaves exactly one record under the
\* key item, made of the arguments and the time of the call; a record the
\* key already had is replaced without error, the number of records does
\* not grow, and nothing of the previous record remains.
C30_AddReplaces ==
  proc.db = "open" =>
    \A item \in Keys, origin \in ScopeOrigins, wt \in 0..MaxRetention :
      LET r == JournalAdd(TheJournal, item, origin, wt, now)
      IN  /\ r.err = "none"
          /\ DOMAIN r.J.data = DOMAIN journal \cup {item}
          /\ \A k \in DOMAIN journal \ {item} : r.J.data[k] = journal[k]
          /\ r.J.data[item].Item = item
          /\ r.J.data[item].Origin = origin
          /\ r.J.data[item].WipeoutTime = wt
          /\ r.J.data[item].TossedTime = now
          /\ JournalCount(r.J).value =
               JournalCount(TheJournal).value + (IF item \in DOMAIN journal THEN 0 ELSE 1)

\* Add has replaced a record that had another Origin and another toss time
C30_Witness ==
  /\ proc.db = "open"
  /\ last.op = "Add" /\ last.outcome = "none"
  /\ last.old # NoRecord
  /\ last.item \in DOMAIN journal
  /\ journal[last.item].Origin # last.old.Origin
  /\ journal[last.item].TossedTime # last.old.TossedTime
  /\ Cardinality(DOMAIN journal) = 1

(***************************************************************************)
(* The size of the bin.  The container /c holds the journal store in       *)
(* .journal and the tossed objects under their entry names; a name is the  *)
(* sequence of its characters and filepath.Walk hands BinSize the joined   *)
(* path string of every object of the tree.                                *)
(***************************************************************************)
\* files are 1..MaxSize bytes long
MaxSize == 2

ContainerPath == <<"/", "c">>

JournalDir == <<".", "j", "o", "u", "r", "n", "a", "l">>

\* the suffix of the entry names
TheSufix == [i \in 1..SufixSize |-> "A"]

\* the container entries of the objects tossed as "a", "d" and "x.journal"
EntryA == <<"a", "_">> \o TheSufix
EntryD == <<"d", "_">> \o TheSufix
EntryX == <<"x">> \o JournalDir \o <<"_">> \o TheSufix

\* the paths below the container, in the lexical order of filepath.Walk
WalkOrder ==
  << <<JournalDir>>,
     <<JournalDir, <<"d", "a", "t", "a">>>>,
     <<EntryA>>,
     <<EntryD>>,
     <<EntryD, <<"b">>>>,
     <<EntryX>> >>

BinPaths == {WalkOrder[i] : i \in 1..Len(WalkOrder)}

\* the container trees: the journal store is a directory, "d" was tossed as
\* a directory, the others as files; an object lies in a directory
Trees ==
  { tr \in [BinPaths -> [kind : {"none", "file", "dir"}, size : 0..MaxSize]] :
      /\ tr[<<JournalDir>>] = [kind |-> "dir", size |-> 0]
      /\ \A p \in BinPaths :
           /\ tr[p].kind = "dir" => p \in {<<JournalDir>>, <<EntryD>>}
           /\ tr[p].kind = "file" => Len(p) = 2 \/ p \in {<<EntryA>>, <<EntryX>>}
           /\ tr[p].kind = "file" <=> tr[p].size > 0
           /\ (Len(p) = 2 /\ tr[p].kind # "none") => tr[<<p[1]>>].kind = "dir" }

\* filepath.Join(root, names...)
RECURSIVE Join(_, _)
Join(root, names) ==
  IF names = <<>> THEN root ELSE Join(root \o <<"/">> \o Head(names), Tail(names))

\* strings.Contains
Contains(s, substr) ==
  \E i \in 0..(Len(s) - Len(substr)) : SubSeq(s, i + 1, i + Len(substr)) = substr

\* the walk function of BinSize on one path of the tree
RECURSIVE WalkFrom(_, _, _)
WalkFrom(tr, i, size) ==
  IF i > Len(WalkOrder) THEN size
  ELSE LET path == Join(ContainerPath, WalkOrder[i])
           info == tr[WalkOrder[i]]
       IN  IF info.kind = "none" THEN WalkFrom(tr, i + 1, size)
           ELSE IF Contains(path, JournalDir) THEN WalkFrom(tr, i + 1, size)
           ELSE IF info.kind # "dir" THEN WalkFrom(tr, i + 1, size + info.size)
           ELSE WalkFrom(tr, i + 1, size)

\* config.BinSize: an error of the walk gives 0 and the error
BinSize(tr, walkFails) ==
  IF walkFails THEN [size |-> 0, err |-> TRUE]
  ELSE [size |-> WalkFrom(tr, 1, 0), err |-> FALSE]

InitBin ==
  /\ journal = <<>>
  /\ fs = <<>>
  /\ container = <<>>
  /\ now = 0
  /\ last = [op |-> "none", outcome |-> "none"]
  /\ tossed = [k \in Keys |-> {}]
  /\ faults = 0
  /\ \E tr \in Trees : proc = [pc |-> "BinSize", tree |-> tr]

AskBinSize(walkFails) ==
  /\ proc.pc = "BinSize"
  /\ \E r \in {BinSize(proc.tree, walkFails)} :
       last' = [op |-> "BinSize", outcome |-> IF r.err THEN "error" ELSE "ok", size |-> r.size]
  /\ proc' = [proc EXCEPT !.pc = "done"]
  /\ UNCHANGED <<journal, fs, container, now, tossed, faults>>

NextBin == \E walkFails \in BOOLEAN : AskBinSize(walkFails)

SpecBin == InitBin /\ [][NextBin]_vars

\* the bytes of the files of the tree at the first i paths that are in S
RECURSIVE Bytes(_, _, _)
Bytes(tr, i, S) ==
  IF i = 0 THEN 0
  ELSE Bytes(tr, i - 1, S)
         + (IF tr[WalkOrder[i]].kind = "file" /\ WalkOrder[i] \in S
              THEN tr[WalkOrder[i]].size ELSE 0)

\* C31 as stated: BinSize returns the sum of the sizes of all non-directory
\* files under the container except those inside the .journal subdirectory,
\* whatever the name of a tossed object is.
C31_Original ==
  LET OutsideStore == {p \in BinPaths : p[1] # JournalDir}
  IN  (last.op = "BinSize" /\ last.outcome = "ok") =>
        last.size = Bytes(proc.tree, Len(WalkOrder), OutsideStore)

\* what does hold: the journal store is never counted, and the result is
\* the sum over the files whose path string does not contain ".journal"
C31_StoreExcluded ==
  LET Plain        == {p \in BinPaths : ~Contains(Join(ContainerPath, p), JournalDir)}
      OutsideStore == {p \in BinPaths : p[1] # JournalDir}
  IN  (last.op = "BinSize" /\ last.outcome = "ok") =>
        /\ last.size = Bytes(proc.tree, Len(WalkOrder), Plain)
        /\ last.size <= Bytes(proc.tree, Len(WalkOrder), OutsideStore)
        /\ proc.tree[<<EntryX>>].kind = "none" =>
             last.size = Bytes(proc.tree, Len(WalkOrder), OutsideStore)

(***************************************************************************)
(* Records between their writing and their deletion                        *)
(***************************************************************************)
\* the keys whose record is in the journal before and after the step, with
\* different fields
Rewritten == {k \in DOMAIN journal \cap DOMAIN journal' : journal'[k] # journal[k]}

\* C32 as stated: from the moment the record of a key is written until it is
\* deleted, its stored fields never change under any toss, restore or wipe;
\* no step leaves a key in the journal with other fields than it had.
C32_Original == [][Rewritten = {}]_vars

\* what does hold: restore and wipe never change the fields of a record
\* (they delete it, or put the identical record back), and toss changes the
\* record of a key only when it draws the suffix of an entry that exists
C32_OnlyTossOnTakenKey ==
  [][Rewritten # {} =>
       /\ last'.op = "toss"
       /\ last'.outcome \in {"ok", "rename_failed", "compensation_failed"}
       /\ Cardinality(Rewritten) = 1]_vars

(***************************************************************************)
(* The queries.  status and info run on the open Journal of the            *)
(* configuration and on the container; q = [J, container] is what they     *)
(* find and out is what they print.  Objects are tossed, time passes, and  *)
(* the queries are asked.                                                  *)
(***************************************************************************)
\* the string of a key
KeyChars(k) == Chars(k[1]) \o <<"_", k[2]>>

\* strings.Replace(s, old, "", 1)
RemoveFirst(s, old) ==
  LET at == {i \in 1..(Len(s) - Len(old) + 1) : SubSeq(s, i, i + Len(old) - 1) = old}
  IN  IF at = {} THEN s
      ELSE LET i == CHOOSE m \in at : \A n \in at : m <= n
           IN  SubSeq(s, 1, i - 1) \o SubSeq(s, i + Len(old), Len(s))

\* relativePath: the directory of the Origin without the working directory,
\* joined with the name of the entry
relativePath(record, workingDir) ==
  LET replaced == RemoveFirst(Render(Dir(record.Origin)), Render(workingDir))
      relative == IF replaced # <<>> /\ replaced[1] = "/" THEN Tail(replaced) ELSE replaced
  IN  IF relative = <<>> THEN KeyChars(record.Item)
      ELSE relative \o <<"/">> \o KeyChars(record.Item)

\* the loop of status.Command over the records it was given: without -g
\* the Item of the record in hand is renamed
Relabelled(records, wd, flags) ==
  [i \in 1..Len(records) |->
     IF flags.g THEN [records[i] EXCEPT !.Item = KeyChars(@)]
     ELSE [records[i] EXCEPT !.Item = relativePath(records[i], wd)]]

\* retrieveJournalRecords on the Journal object
retrieveFrom(J, wd, flags, fault, t) ==
  IF fault = "journal" THEN Result(J, "journal", <<>>)
  ELSE IF flags.g THEN JournalList(J)
  ELSE IF flags.w THEN Result(J, "none", FilterWipeable(J.data, t))
  ELSE Result(J, "none", FilterPath(J.data, wd))

\* status.Command whose loop renames the records of the store itself
statusQuery_SharedRecords(q, wd, flags, fault, t) ==
  LET got   == retrieveFrom(q.J, wd, flags, fault, t)
      names == Relabelled(got.value, wd, flags)
      out   == statusCommand(q.J.data, wd, flags, fault, t)
      kept  == [k \in DOMAIN got.J.data |->
                  IF \E i \in 1..Len(got.value) : got.value[i].Item = k
                    THEN names[CHOOSE i \in 1..Len(got.value) : got.value[i].Item = k]
                    ELSE got.J.data[k]]
  IN  IF fault = "BinSize" \/ flags.s THEN [q |-> q, out |-> out, names |-> <<>>]
      ELSE IF got.err # "none" THEN [q |-> [q EXCEPT !.J = got.J], out |-> out, names |-> <<>>]
      ELSE [q |-> [q EXCEPT !.J = [got.J EXCEPT !.data = kept]], out |-> out, names |-> names]

\* status.Command as a whole: BinSize walks the container, the records come
\* from the Journal, and the loop renames the records it holds
statusQuery(q, wd, flags, fault, t) ==
  LET got   == retrieveFrom(q.J, wd, flags, fault, t)
      names == Relabelled(got.value, wd, flags)
      out   == statusCommand(q.J.data, wd, flags, fault, t)
  IN  IF fault = "BinSize" \/ flags.s THEN [q |-> q, out |-> out, names |-> <<>>]
      ELSE IF got.err # "none" THEN [q |-> [q EXCEPT !.J = got.J], out |-> out, names |-> <<>>]
      ELSE [q |-> [q EXCEPT !.J = got.J], out |-> out, names |-> names]

\* info.Command as a whole: the list or the record comes from the Journal
infoQuery(q, byPosition, name, build) ==
  LET got == IF byPosition # 0 THEN JournalList(q.J) ELSE JournalGet(q.J, name)
      out == IF byPosition # 0 THEN retrieveByPosition(q.J.data, byPosition, build)
             ELSE retrieveByName(q.J.data, name)
  IN  [q |-> [q EXCEPT !.J = got.J], out |-> out]

\* what the queries of the current state find
Found == [J |-> [db |-> "open", data |-> journal], container |-> container]

InitQuery == InitScope

\* an object of the given directory arrives in the container with its record
QueryToss(key, origin) ==
  /\ journal' = Add(journal, fs, <<"w">>, key, [abs |-> TRUE, comps |-> origin], 1, now)
  /\ container' = [k \in DOMAIN container \cup {key} |-> [kind |-> "file", data |-> "d1"]]
  /\ last' = [op |-> "toss", outcome |-> "ok"]
  /\ UNCHANGED <<fs, now, tossed, faults, proc>>

StatusQuery(wd, flags, fault) ==
  \E r \in {statusQuery(Found, wd, flags, fault, now)} :
    /\ journal' = r.q.J.data
    /\ container' = r.q.container
    /\ last' = [op |-> "status", outcome |-> r.out.err, total |-> r.out.total,
                names |-> r.names]
    /\ UNCHANGED <<fs, now, tossed, faults, proc>>

InfoQuery(byPosition, name, build) ==
  \E r \in {infoQuery(Found, byPosition, name, build)} :
    /\ journal' = r.q.J.data
    /\ container' = r.q.container
    /\ last' = [op |-> "info", outcome |-> r.out.err, record |-> r.out.record]
    /\ UNCHANGED <<fs, now, tossed, faults, proc>>

NextQuery ==
  \/ \E key \in Keys, origin \in ScopeOrigins : QueryToss(key, origin)
  \/ Tick
  \/ \E wd \in WorkingDirs, flags \in StatusFlags, fault \in StatusFaults :
       StatusQuery(wd, flags, fault)
  \/ \E byPosition \in Positions :
       \E name \in Only(Keys, byPosition = 0), build \in Only(Builds, byPosition # 0) :
         InfoQuery(byPosition, name, build)

SpecQuery == InitQuery /\ [][NextQuery]_vars

\* C33: every invocation of status, with any flags, and of info, by name or
\* by position, leaves every journal record and every container entry as it
\* found them, whether it prints, fails or stops.
C33_QueriesReadOnly ==
  /\ \A wd \in WorkingDirs, flags \in StatusFlags, fault \in StatusFaults :
       statusQuery(Found, wd, flags, fault, now).q = Found
  /\ \A byPosition \in Positions, name \in Keys, build \in Builds :
       infoQuery(Found, byPosition, name, build).q = Found

\* status has listed the record of an object of /w/sub under the name
\* sub/a_S1, and the record and the entry are in place
C33_Witness ==
  /\ last.op = "status" /\ last.outcome = "none"
  /\ \E i \in 1..Len(last.names) : last.names[i].Item = <<"s", "u", "b", "/", "a", "_", "S1">>
  /\ <<"a", "S1">> \in DOMAIN journal
  /\ journal[<<"a", "S1">>].Item = <<"a", "S1">>
  /\ <<"a", "S1">> \in DOMAIN container

(***************************************************************************)
(* The confirmation prompt of wipe                                         *)
(***************************************************************************)
\* the lines a user can answer the prompt "[y/N]" with
Answers == Responses \cup {"Y", "N", "not now"}

\* one run of the loops of wipe over the records, all named or none named
WipeLoop(records, files, auto, resp, flt) ==
  IF files = <<>> THEN wipeAllFiles(World, records, auto, resp, flt)
  ELSE wipeSelectedFiles(World, records, files, auto, resp, flt)

\* the candidate k was declined: it is reported as skipped, its record and
\* its container entry are as before, and every asked candidate was handled
SkippedOnly(r, k, asked) ==
  /\ r.outcome = "done"
  /\ DOMAIN r.per = asked
  /\ r.per[k] = "skipped"
  /\ k \in DOMAIN r.w.journal /\ r.w.journal[k] = journal[k]
  /\ At(r.w.container, k) = At(container, k)

\* every candidate counts as confirmed without a line being read
AllConfirmed(r, asked) ==
  /\ r.outcome = "done"
  /\ \A k \in asked : r.per[k] = "wiped" /\ k \notin DOMAIN r.w.journal

\* C34 as stated: any response other than 'y' or 'Y' (No being the default
\* of the prompt) skips only that candidate, whose record and container
\* object stay, and wipe proceeds to the next candidate; with
\* auto-acknowledge every candidate counts as confirmed whatever the input.
C34_Original ==
  \A records \in CandidateLists, auto \in BOOLEAN :
    LET cand == Items(records)
    IN  \A files \in {<<>>} \cup Batches(cand), resp \in [cand -> Answers] :
          LET r     == WipeLoop(records, files, auto, resp, Always("none"))
              asked == IF files = <<>> THEN cand ELSE {files[i] : i \in 1..Len(files)}
          IN  IF auto THEN AllConfirmed(r, asked)
              ELSE \A k \in asked : resp[k] \notin {"y", "Y"} => SkippedOnly(r, k, asked)

\* what does hold: the claim for answers of one word, and for
\* auto-acknowledge with any input
C34_OneWordAnswers ==
  \A records \in CandidateLists, auto \in BOOLEAN :
    LET cand == Items(records)
    IN  \A files \in {<<>>} \cup Batches(cand), resp \in [cand -> Answers] :
          LET r     == WipeLoop(records, files, auto, resp, Always("none"))
              asked == IF files = <<>> THEN cand ELSE {files[i] : i \in 1..Len(files)}
          IN  IF auto THEN AllConfirmed(r, asked)
              ELSE (\A k \in asked : ~ScanlnFails(resp[k])) =>
                     \A k \in asked : resp[k] \notin {"y", "Y"} => SkippedOnly(r, k, asked)

(***************************************************************************)
(* The order of the items of one invocation                                *)
(***************************************************************************)
\* toss of the two paths, x before y; each path has its own suffix
TossPair(wd, x, y, sx, sy) ==
  tosserCommand(World, wd, <<x, y>>, 1, <<sx, sy>>, <<Granted, Granted>>,
                <<"none", "none">>, now)

RestorePair(wd, x, y, override) ==
  restorerCommand(World, wd, <<x, y>>, override, <<"none", "none">>)

WipePair(wd, mode, x, y) ==
  Wipe(World, wd, mode, <<x, y>>, Always("y"), Always("none"), FALSE, now)

\* C35 as stated: the journal and the filesystem after an invocation of
\* toss, restore or wipe with two items do not depend on the order in which
\* the two items are given; for restore also when the two keys have the
\* same original basename.
C35_Original ==
  /\ \A wd \in WorkingDirs, x \in TossArgs, y \in TossArgs, sx \in Suffixes, sy \in Suffixes :
       (x # y /\ sx # sy) => TossPair(wd, x, y, sx, sy).w = TossPair(wd, y, x, sy, sx).w
  /\ \A wd \in WorkingDirs, x \in Keys, y \in Keys, override \in BOOLEAN :
       RestorePair(wd, x, y, override).w = RestorePair(wd, y, x, override).w
  /\ \A wd \in WorkingDirs, mode \in WipeModes, x \in Keys, y \in Keys :
       WipePair(wd, mode, x, y).w = WipePair(wd, mode, y, x).w

\* what does hold: the order is without effect for a toss in which every
\* path is tossed, for a restore in which at most one of the keys is a
\* local record, and for a wipe in which both keys are candidates
C35_OrderFreeWhenApart ==
  /\ \A wd \in WorkingDirs, x \in TossArgs, y \in TossArgs, sx \in Suffixes, sy \in Suffixes :
       (/\ x # y /\ sx # sy
        /\ TossPair(wd, x, y, sx, sy).outcome = "ok"
        /\ TossPair(wd, y, x, sy, sx).outcome = "ok")
         => TossPair(wd, x, y, sx, sy).w = TossPair(wd, y, x, sy, sx).w
  /\ \A wd \in WorkingDirs, x \in Keys, y \in Keys, override \in BOOLEAN :
       ~({x, y} \subseteq Items(FilterPath(journal, wd)) /\ x # y)
         => RestorePair(wd, x, y, override).w = RestorePair(wd, y, x, override).w
  /\ \A wd \in WorkingDirs, mode \in WipeModes, x \in Keys, y \in Keys :
       {x, y} \subseteq Candidates(wd, mode)
         => WipePair(wd, mode, x, y).w = WipePair(wd, mode, y, x).w

(***************************************************************************)
(* TossFile and TossDirectory with the journal write in a goroutine.  The  *)
(* entry is named after the basename, with a time stamp when that name is  *)
(* taken; the function starts the goroutine that calls Journal.Add and     *)
(* goes on to os.Rename.  proc.pc is the position of the function,         *)
(* proc.go the state of the goroutine.  When the process ends, a goroutine *)
(* that has not run is gone.                                               *)
(***************************************************************************)
NoRun == [pc |-> "idle", go |-> "none"]

\* basename + "_" + time.Now().Format("20060102150405")
Stamped(basename) == CASE basename = "a" -> "a_T"

\* the name under which the object goes into the container
Destination(cont, item) ==
  IF StatOK(cont, Base(item.comps)) THEN Stamped(Base(item.comps))
  ELSE Base(item.comps)

\* the key of the record: TossFile takes the name of the destination,
\* TossDirectory the basename
RaceKey(f, cont, wd, item) ==
  IF At(f, Abs(wd, item)).kind = "dir" THEN Base(item.comps)
  ELSE Destination(cont, item)

InitRace ==
  /\ journal = <<>>
  /\ \E f \in InitFS : fs = [p \in {q \in Places : f[q].kind # "none"} |-> f[p]]
  /\ container = <<>>
  /\ now = 0
  /\ last = [op |-> "none", outcome |-> "none"]
  /\ tossed = [k \in Keys |-> {}]
  /\ faults = 0
  /\ proc = NoRun

\* the function up to the go statement: os.Stat, the destination, and the
\* goroutine is started
StartGoroutine(wd, item) ==
  /\ proc.pc = "idle"
  /\ StatOK(fs, Abs(wd, item))
  /\ proc' = [pc |-> "Rename", go |-> "pending", wd |-> wd, item |-> item,
              dest |-> Destination(container, item),
              key |-> RaceKey(fs, container, wd, item), outcome |-> "running"]
  /\ UNCHANGED <<journal, fs, container, now, last, tossed, faults>>

\* the goroutine runs: Journal.Add stores the record, or prints its error
GoAdd(fails) ==
  /\ proc.go = "pending"
  /\ Inject(IF fails THEN "add" ELSE "none")
  /\ journal' = IF fails THEN journal
                ELSE Add(journal, fs, proc.wd, proc.key, proc.item, 1, now)
  /\ proc' = [proc EXCEPT !.go = "done"]
  /\ UNCHANGED <<fs, container, now, last, tossed>>

\* os.Rename waits for the goroutine
RenameReady_AfterAdd(p) == p.pc = "Rename" /\ p.go = "done"

\* os.Rename is the statement after the go statement
RenameReady(p) == p.pc = "Rename"

\* os.Rename(item, destination) returns; the function returns when it worked
RaceRename(fails) ==
  /\ RenameReady(proc)
  /\ Inject(IF fails THEN "rename" ELSE "none")
  /\ LET src   == Abs(proc.wd, proc.item)
         moved == ~fails /\ RenameAllowed(At(fs, src), At(container, proc.dest))
     IN  IF moved
           THEN /\ fs' = [p \in DOMAIN fs \ {src} |-> fs[p]]
                /\ container' = [k \in DOMAIN container \cup {proc.dest} |->
                                   IF k = proc.dest THEN fs[src] ELSE container[k]]
                /\ proc' = [proc EXCEPT !.pc = "returned", !.outcome = "ok"]
           ELSE /\ proc' = [proc EXCEPT !.pc = "Delete"]
                /\ UNCHANGED <<fs, container>>
  /\ UNCHANGED <<journal, now, last, tossed>>

\* Journal.Delete after the failed rename returns, and the function returns
RaceDelete(fails) ==
  /\ proc.pc = "Delete"
  /\ Inject(IF fails THEN "rename_delete" ELSE "none")
  /\ journal' = IF fails THEN journal ELSE Delete(journal, proc.key)
  /\ proc' = [proc EXCEPT !.pc = "returned",
                          !.outcome = IF fails THEN "compensation_failed"
                                      ELSE "rename_failed"]
  /\ UNCHANGED <<fs, container, now, last, tossed>>

\* the command and main return: the process ends with the goroutine as it is
RaceExit ==
  /\ proc.pc = "returned"
  /\ last' = [op |-> "toss", outcome |-> proc.outcome, key |-> proc.key,
              go |-> IF proc.go = "pending" THEN "killed" ELSE proc.go]
  /\ proc' = NoRun
  /\ UNCHANGED <<journal, fs, container, now, tossed, faults>>

NextRace ==
  \/ \E wd \in WorkingDirs, item \in TossArgs : StartGoroutine(wd, item)
  \/ \E fails \in BOOLEAN : GoAdd(fails)
  \/ \E fails \in BOOLEAN : RaceRename(fails)
  \/ \E fails \in BOOLEAN : RaceDelete(fails)
  \/ RaceExit

SpecRace == InitRace /\ [][NextRace]_vars

\* C36: the journal write of the goroutine and the move are not ordered.
\* Once the goroutine is started either of them can be the next to happen;
\* the function can return, and the process end, with the object moved and
\* the record not written; and the record can be written with the object
\* not moved, before the rename and after the Delete of a failed rename.
C36_WriteRacesWithMove ==
  /\ (proc.pc = "Rename" /\ proc.go = "pending")
       => ENABLED GoAdd(FALSE) /\ ENABLED RaceRename(FALSE)
  /\ (proc.pc = "returned" /\ proc.go = "pending")
       => ENABLED GoAdd(FALSE) /\ ENABLED RaceExit
  /\ (proc.pc = "Delete" /\ proc.go = "pending")
       => ENABLED GoAdd(FALSE) /\ ENABLED RaceDelete(FALSE)

\* both interleavings have happened: the run before ended with its object
\* moved, the function returned and the record never written; in the run
\* under way the record is written and the object is not moved
C36_Witness ==
  /\ last.op = "toss" /\ last.outcome = "ok" /\ last.go = "killed"
  /\ last.key \in DOMAIN container /\ last.key \notin DOMAIN journal
  /\ proc.pc = "Rename" /\ proc.go = "done"
  /\ proc.key \in DOMAIN journal
  /\ proc.dest \notin DOMAIN container
  /\ StatOK(fs, Abs(proc.wd, proc.item))

(***************************************************************************)
(* Runs in which every journal operation succeeds: the commands as before, *)
(* where only os.Rename and os.RemoveAll can fail.                         *)
(***************************************************************************)
\* the faults of each command that are not faults of the journal
SoundTossFaults == {"none", "rename"}
SoundRestoreFaults == {"none", "rename"}
SoundWipeFaults == {"none", "remove"}

NextSound ==
  \/ \E wd \in WorkingDirs, item \in TossArgs :
       \E acc \in Only(AccessCases, StatOK(fs, Abs(wd, item))) :
         \E wt \in Only(1..MaxRetention, StatOK(fs, Abs(wd, item)) /\ validateAccess(acc)),
            sfx \in Only(Suffixes, StatOK(fs, Abs(wd, item)) /\ validateAccess(acc)),
            fault \in NoFaultUnless(SoundTossFaults,
                                    StatOK(fs, Abs(wd, item)) /\ validateAccess(acc)) :
           TossCommand(wd, item, wt, sfx, acc, fault)
  \/ \E wd \in WorkingDirs, file \in Keys, override \in BOOLEAN, fault \in SoundRestoreFaults :
       RestoreCommand(wd, file, override, fault)
  \/ \E mode \in WipeModes :
       \E wd \in Only(WorkingDirs, ~mode.global) :
         \E file \in Only(Keys \cup {NoKey}, Asked(wd, mode, NoKey, FALSE) # {}) :
           \E resp \in [Asked(wd, mode, file, FALSE) -> Only(Responses, ~mode.yes)] :
             \E flt \in { f \in [DOMAIN resp -> SoundWipeFaults] :
                            \A k \in DOMAIN resp :
                              confirmWipe(mode.yes, resp[k]) # "yes" => f[k] = "none" } :
               WipeCommand(wd, mode, file, resp, flt, FALSE)
  \/ Tick

SpecSound == Init /\ [][NextSound]_vars

\* C37 as stated: after any sequence of completed toss, restore and wipe
\* invocations in which every journal operation succeeds, failed renames
\* and removals included, the keys of the journal are the entries of the
\* container.
C37_Original == DOMAIN journal = DOMAIN container

\* what does hold: the two sets come apart only in a toss whose rename
\* failed and whose compensating Delete removed a record that was in the
\* journal before the toss, the record of the entry whose name it drew
C37_OnlyByCollision ==
  [][(DOMAIN journal = DOMAIN container /\ DOMAIN journal' # DOMAIN container') =>
       /\ last'.op = "toss" /\ last'.outcome = "rename_failed"
       /\ container' = container
       /\ DOMAIN journal' # DOMAIN journal
       /\ DOMAIN journal' \subseteq DOMAIN journal]_vars

(***************************************************************************)
(* executeWipe and restore call by call.  Objects are tossed under names   *)
(* that are free; a wipe or a restore of one key is followed through its   *)
(* calls of the journal and of the filesystem, and the process can be      *)
(* stopped between two calls.                                              *)
(***************************************************************************)
\* toss of an object under a name that no entry and no record has
FreshToss(wd, item, sfx) ==
  /\ proc = Idle
  /\ StatOK(fs, Abs(wd, item))
  /\ DestName(item, sfx) \notin DOMAIN journal \cup DOMAIN container
  /\ \E r \in {Toss(World, wd, item, 1, sfx, Granted, "none", now)} :
       /\ journal' = r.w.journal
       /\ fs' = r.w.fs
       /\ container' = r.w.container
       /\ last' = [op |-> "toss", outcome |-> r.outcome]
  /\ UNCHANGED <<now, tossed, faults, proc>>

\* wipe -f -g -y up to the call of executeWipe for a candidate
BeginWipe(key) ==
  /\ proc = Idle
  /\ key \in Items(getRecords(journal, <<"w">>, TRUE, TRUE, now))
  /\ proc' = [pc |-> "wipe.Delete", record |-> journal[key]]
  /\ last' = [op |-> "wipe", outcome |-> "running"]
  /\ UNCHANGED <<journal, fs, container, now, tossed, faults>>

\* executeWipe: cfg.Journal.Delete(record.Item) returns
WipeDeleteStep(fails) ==
  /\ proc.pc = "wipe.Delete"
  /\ Inject(IF fails THEN "delete" ELSE "none")
  /\ IF fails
       THEN /\ last' = [op |-> "wipe", outcome |-> "delete_failed"]
            /\ proc' = Idle
            /\ UNCHANGED journal
       ELSE /\ journal' = Delete(journal, proc.record.Item)
            /\ proc' = [proc EXCEPT !.pc = "wipe.RemoveAll"]
            /\ UNCHANGED last
  /\ UNCHANGED <<fs, container, now, tossed>>

\* executeWipe: os.RemoveAll(rubbishFile) returns
WipeRemoveStep(fails) ==
  /\ proc.pc = "wipe.RemoveAll"
  /\ Inject(IF fails THEN "remove" ELSE "none")
  /\ IF fails
       THEN /\ proc' = [proc EXCEPT !.pc = "wipe.AddRecord"]
            /\ UNCHANGED <<container, last>>
       ELSE /\ container' = [k \in DOMAIN container \ {proc.record.Item} |-> container[k]]
            /\ last' = [op |-> "wipe", outcome |-> "wiped"]
            /\ proc' = Idle
  /\ UNCHANGED <<journal, fs, now, tossed>>

\* executeWipe: cfg.Journal.AddRecord(record) returns, its result unread
WipeReaddStep(fails) ==
  /\ proc.pc = "wipe.AddRecord"
  /\ Inject(IF fails THEN "remove_readd" ELSE "none")
  /\ journal' = IF fails THEN journal ELSE AddRecord(journal, proc.record)
  /\ last' = [op |-> "wipe", outcome |-> "remove_failed"]
  /\ proc' = Idle
  /\ UNCHANGED <<fs, container, now, tossed>>

\* restorer.Command up to os.Rename: the local records, the record of the
\* key, and the target in the working directory
BeginRestore(wd, file, override) ==
  /\ proc = Idle
  /\ LET local_rubbish == FilterPath(journal, wd)
         original_file == wd \o <<Base(RecordOf(local_rubbish, file).Origin)>>
     IN  IF file \notin Items(local_rubbish)
           THEN /\ last' = [op |-> "restore", outcome |-> "not_in_scope"]
                /\ proc' = proc
         ELSE IF StatOK(fs, original_file) /\ ~override
           THEN /\ last' = [op |-> "restore", outcome |-> "conflict"]
                /\ proc' = proc
         ELSE /\ last' = [op |-> "restore", outcome |-> "running"]
              /\ proc' = [pc |-> "restore.Rename", record |-> RecordOf(local_rubbish, file),
                          original_file |-> original_file]
  /\ UNCHANGED <<journal, fs, container, now, tossed, faults>>

\* restorer.Command: os.Rename(container entry, original_file) returns
RestoreRenameStep(fails) ==
  /\ proc.pc = "restore.Rename"
  /\ Inject(IF fails THEN "rename" ELSE "none")
  /\ LET key   == proc.record.Item
         moved == ~fails /\ RenameAllowed(At(container, key), At(fs, proc.original_file))
     IN  IF moved
           THEN /\ fs' = [p \in DOMAIN fs \cup {proc.original_file} |->
                            IF p = proc.original_file THEN container[key] ELSE fs[p]]
                /\ container' = [k \in DOMAIN container \ {key} |-> container[k]]
                /\ proc' = [proc EXCEPT !.pc = "restore.Delete"]
                /\ UNCHANGED last
           ELSE /\ last' = [op |-> "restore", outcome |-> "rename_failed"]
                /\ proc' = Idle
                /\ UNCHANGED <<fs, container>>
  /\ UNCHANGED <<journal, now, tossed>>

\* restorer.Command: cfg.Journal.Delete(record.Item) returns
RestoreDeleteStep(fails) ==
  /\ proc.pc = "restore.Delete"
  /\ Inject(IF fails THEN "delete" ELSE "none")
  /\ journal' = IF fails THEN journal ELSE Delete(journal, proc.record.Item)
  /\ last' = [op |-> "restore", outcome |-> IF fails THEN "delete_failed" ELSE "ok"]
  /\ proc' = Idle
  /\ UNCHANGED <<fs, container, now, tossed>>

\* the process is stopped between two calls of a wipe or a restore
StopHere ==
  /\ proc # Idle
  /\ last' = [op |-> last.op, outcome |-> "stopped", pc |-> proc.pc]
  /\ proc' = Idle
  /\ UNCHANGED <<journal, fs, container, now, tossed, faults>>

NextCalls ==
  \/ \E wd \in WorkingDirs, item \in TossArgs, sfx \in Suffixes : FreshToss(wd, item, sfx)
  \/ \E key \in Keys : BeginWipe(key)
  \/ \E fails \in BOOLEAN : WipeDeleteStep(fails)
  \/ \E fails \in BOOLEAN : WipeRemoveStep(fails)
  \/ \E fails \in BOOLEAN : WipeReaddStep(fails)
  \/ \E wd \in WorkingDirs, file \in Keys, override \in BOOLEAN : BeginRestore(wd, file, override)
  \/ \E fails \in BOOLEAN : RestoreRenameStep(fails)
  \/ \E fails \in BOOLEAN : RestoreDeleteStep(fails)
  \/ StopHere

SpecCalls == InitSteps /\ [][NextCalls]_vars

\* C38 as stated: at every step of executeWipe and of restore, and so
\* wherever the process stops, no entry is in the container without a
\* journal record under its name.
C38_Original == DOMAIN container \subseteq DOMAIN journal

\* what does hold: no step of restore leaves an entry without record, a
\* stop in restore leaves at worst a record without entry, and an entry is
\* without record only from the Delete of executeWipe on
C38_OnlyInExecuteWipe ==
  [][/\ (DOMAIN container \subseteq DOMAIN journal
           /\ ~(DOMAIN container' \subseteq DOMAIN journal'))
        => proc.pc = "wipe.Delete" /\ proc'.pc = "wipe.RemoveAll"
     /\ proc.pc = "restore.Delete"
        => proc.record.Item \in DOMAIN journal \ DOMAIN container]_vars

(***************************************************************************)
(* Wipeability over time                                                   *)
(***************************************************************************)
\* the keys that were due before the step, still have a record after it,
\* and are not due any more
NoLongerDue ==
  {k \in DOMAIN journal \cap DOMAIN journal' :
     IsWipeable(journal[k], now) /\ ~IsWipeable(journal'[k], now')}

\* C39 as stated: once IsWipeable is true for a key it stays true at every
\* later time and across every operation for as long as the key has a
\* record in the journal.
C39_Original == [][NoLongerDue = {}]_vars

\* what does hold: a record that is due stays due while time passes and
\* through wipe (the re-added record included) and restore; a key stops
\* being due only when a toss that drew its name writes its record anew
C39_DueUntilRewritten ==
  [][/\ NoLongerDue \subseteq Rewritten
     /\ NoLongerDue # {} => last'.op = "toss" /\ now' = now]_vars

(***************************************************************************)
(* status with the count in a goroutine.  The command reads the records,   *)
(* starts a goroutine that walks them and increments the counter, lists    *)
(* the records itself, and prints the counter; the two share the counter   *)
(* without synchronization.  proc.i is the number of records the goroutine *)
(* has looked at, proc.shown the number of records listed.                 *)
(***************************************************************************)
\* record.WipeoutTime - int(time.Since(TossedTime).Hours() / 24)
DaysToWipe(record, t) == record.WipeoutTime - ((t - record.TossedTime) \div DaySecs)

InitCount == InitScope

\* time passes between two runs
BetweenRuns ==
  /\ proc = Idle
  /\ Tick

\* status.Command up to the go statement: the records, and their number
BeginStatus(wd, global) ==
  /\ proc = Idle
  /\ LET records == IF global THEN List(journal) ELSE GetContainerItems(journal, wd)
     IN  IF Len(records) = 0
           THEN /\ last' = [op |-> "status", outcome |-> "empty"]
                /\ proc' = proc
           ELSE /\ last' = [op |-> "status", outcome |-> "running"]
                /\ proc' = [pc |-> "list", records |-> records, i |-> 0, toWipeCount |-> 0,
                            shown |-> 0]
  /\ UNCHANGED <<journal, fs, container, now, tossed, faults>>

\* the goroutine looks at its next record: *count++ when it is due
GoCount ==
  /\ proc.pc \in {"list", "print"}
  /\ proc.i < Len(proc.records)
  /\ proc' = [proc EXCEPT !.i = @ + 1,
                          !.toWipeCount =
                             IF DaysToWipe(proc.records[proc.i + 1], now) <= 0
                               THEN @ + 1 ELSE @]
  /\ UNCHANGED <<journal, fs, container, now, last, tossed, faults>>

\* the command lists its next record
ListRecord ==
  /\ proc.pc = "list"
  /\ proc' = [proc EXCEPT !.shown = @ + 1,
                          !.pc = IF proc.shown + 1 = Len(proc.records) THEN "print" ELSE "list"]
  /\ UNCHANGED <<journal, fs, container, now, last, tossed, faults>>

\* the values the unsynchronized read of toWipeCount can give: the initial
\* value or any value the goroutine has written
Readable(p) == 0..p.toWipeCount

\* "Total items ready to be wiped out: %d", and the command returns
PrintTotal(read) ==
  /\ proc.pc = "print"
  /\ read \in Readable(proc)
  /\ last' = [op |-> "status", outcome |-> "ok", printed |-> read,
              records |-> proc.records, counted |-> proc.i, at |-> now]
  /\ proc' = Idle
  /\ UNCHANGED <<journal, fs, container, now, tossed, faults>>

NextCount ==
  \/ \E key \in Keys, origin \in ScopeOrigins : Record(key, origin)
  \/ BetweenRuns
  \/ \E wd \in WorkingDirs, global \in BOOLEAN : BeginStatus(wd, global)
  \/ GoCount
  \/ ListRecord
  \/ \E read \in 0..Cardinality(Keys) : PrintTotal(read)

SpecCount == InitCount /\ [][NextCount]_vars

\* the listed records that are due when the total is printed
ReadyToWipe ==
  {i \in 1..Len(last.records) : DaysToWipe(last.records[i], last.at) <= 0}

\* C40 as stated: in every interleaving the number printed as "Total items
\* ready to be wiped out" is the number of listed records whose remaining
\* days are <= 0.
C40_Original ==
  (last.op = "status" /\ last.outcome = "ok") =>
    last.printed = Cardinality(ReadyToWipe)

\* what does hold: the number printed is never more than that number, nor
\* more than the due records among those the goroutine had looked at
C40_NeverMore ==
  (last.op = "status" /\ last.outcome = "ok") =>
    /\ last.printed <= Cardinality(ReadyToWipe)
    /\ last.printed <= Cardinality({i \in ReadyToWipe : i <= last.counted})
====
